---- MODULE Spec2Model ----
(***************************************************************************)
(* The audio-feature-to-movement pipeline of the DJ Reactor app:           *)
(* BeatTracker, FrequencyAnalyzer and AudioAnalyzer (audio_analyzer.py),   *)
(* MovementMapper and RobotController (music_animations.py).               *)
(*                                                                         *)
(* Units.  Floats are modelled as exact fixed-point or rational numbers:   *)
(*   time       ticks of 1/SampleRate s (one audio sample)                 *)
(*   rms        units of 0.0005 (so 0.001 is 2 and 0.002 is 4)             *)
(*   bpm, beat_interval   exact rationals [n, d], reduced, d > 0           *)
(*   band levels, onset_strength, beat_phase, intensity, sensitivity,      *)
(*   preset factors and pose fields   thousandths (milli-units)            *)
(***************************************************************************)
EXTENDS Integers, Sequences, FiniteSets, TLC

VARIABLES
    now,            \* time.time() - start_time of the last callback, in ticks
    beat_tracker,   \* the BeatTracker's fields
    freq_analyzer,  \* the FrequencyAnalyzer's smoothing accumulators
    analyzer,       \* the AudioAnalyzer's fields
    mapper,         \* the MovementMapper's fields
    controller,     \* the RobotController's fields
    robot,          \* the actuator boundary: the goto_target calls received
    packaged,       \* the AudioAnalyzer of the packaged app (reachy_mini_dj_reactor/main.py)
    track,          \* the synthetic click track being fed, when one is (the environment)
    app,            \* the AppState's fields and the position of its threads (app.py)
    op,             \* the last operation, its arguments and what it returned
    nsteps          \* number of operations so far (bounds the exploration)

vars == <<now, beat_tracker, freq_analyzer, analyzer, mapper, controller, robot, packaged,
          track, app, op, nsteps>>

----------------------------------------------------------------------------
(* Arithmetic helpers                                                      *)

Abs(x) == IF x < 0 THEN -x ELSE x

Min(a, b) == IF a < b THEN a ELSE b

Max(a, b) == IF a > b THEN a ELSE b

RECURSIVE GCD(_, _)
GCD(a, b) == IF b = 0 THEN a ELSE GCD(b, a % b)

\* The rational n/d in lowest terms with a positive denominator.
Rat(n, d) ==
    LET g == GCD(Abs(n), Abs(d))
        s == IF d < 0 THEN -1 ELSE 1
    IN  [n |-> s * (n \div g), d |-> s * (d \div g)]

\* the sum of a sequence, by halves
RECURSIVE Sum(_)
Sum(s) ==
    LET n == Len(s)
        h == n \div 2
    IN  IF n = 0 THEN 0
        ELSE IF n = 1 THEN s[1]
        ELSE Sum(SubSeq(s, 1, h)) + Sum(SubSeq(s, h + 1, n))

\* the sequence in ascending order: each entry is placed at one more than the
\* number of entries that come before it, equal entries in order of position
Sort(s) ==
    LET n      == Len(s)
        placed == { <<1 + Cardinality({j \in 1 .. n :
                                         s[j] < s[i] \/ (s[j] = s[i] /\ j < i)}),
                      s[i]>> : i \in 1 .. n }
    IN  [k \in 1 .. n |-> (CHOOSE p \in placed : p[1] = k)[2]]

\* deque(maxlen=cap).append(x): the oldest entry is evicted when full.
AppendCap(s, x, cap) ==
    IF Len(s) >= cap THEN Append(Tail(s), x) ELSE Append(s, x)

----------------------------------------------------------------------------
(* Program constants                                                       *)

SampleRate == 44100

ChunkSize == 2048

EnergyCap == 10

BeatCap == 50

\* onset_threshold = 1.3, as the fraction OnsetNum / OnsetDen
OnsetNum == 13

OnsetDen == 10

\* min_interval = beat_interval * 0.7, as the fraction GateNum / GateDen
GateNum == 7

GateDen == 10

\* energy > 0.002, in rms units
SilenceFloor == 4

\* silence_threshold = 0.001, in rms units
silence_threshold == 2

\* frames_silent > 10
SilenceFrames == 10

\* the clamp of the tempo estimate
MinBpm == 60

MaxBpm == 200

\* the cap of the returned onset strength, 2.0 in thousandths
OnsetCap == 2000

\* queue.Queue(maxsize=10)
QueueCap == 10

----------------------------------------------------------------------------
(* BeatTracker  (audio_analyzer.py)                                        *)

BeatTrackerInit ==
    [ energy_history |-> <<>>,
      beat_times     |-> <<>>,
      last_beat_time |-> 0,
      estimated_bpm  |-> [n |-> 120, d |-> 1],
      beat_interval  |-> [n |-> SampleRate \div 2, d |-> 1] ]

\* intervals = [times[i+1] - times[i] for i in range(len(times) - 1)]
Intervals(times) == [i \in 1 .. (Len(times) - 1) |-> times[i + 1] - times[i]]

\* Twice np.median(intervals): the middle element of the sorted list, or the
\* mean of the two middle elements, doubled to stay in the integers.
Median2(intervals) ==
    LET s == Sort(intervals)
        n == Len(s)
    IN  IF n % 2 = 1 THEN 2 * s[(n + 1) \div 2]
        ELSE s[n \div 2] + s[n \div 2 + 1]

\* faulty variant: the outlier filter that keeps only intervals above the median
IsValidIntervalAboveMedian(i, med2) == med2 < 2 * i /\ i < med2

\* faulty variant: the outlier filter with a non-strict upper bound
IsValidIntervalLoose(i, med2) == med2 < 4 * i /\ i <= med2

\* 0.5 * median_interval < i < 2 * median_interval
IsValidInterval(i, med2) == med2 < 4 * i /\ i < med2

ValidIntervals(intervals) ==
    LET med2 == Median2(intervals)
    IN  SelectSeq(intervals, LAMBDA i : IsValidInterval(i, med2))

\* faulty variant: the clamp without its lower bound, min(200, 60.0 / avg_interval)
ClampBpmNoFloor(n, d) ==
    IF n = 0 THEN [n |-> MaxBpm, d |-> 1]
    ELSE IF 60 * SampleRate * d > MaxBpm * n THEN [n |-> MaxBpm, d |-> 1]
    ELSE Rat(60 * SampleRate * d, n)

\* max(60, min(200, 60.0 / avg_interval)) for avg_interval = n/d ticks.
\* A zero interval divides to +inf in numpy floats, which the clamp maps to 200.
ClampBpm(n, d) ==
    IF n = 0 THEN [n |-> MaxBpm, d |-> 1]
    ELSE IF n < 0 THEN [n |-> MinBpm, d |-> 1]
    ELSE IF 60 * SampleRate * d > MaxBpm * n THEN [n |-> MaxBpm, d |-> 1]
    ELSE IF 60 * SampleRate * d < MinBpm * n THEN [n |-> MinBpm, d |-> 1]
    ELSE Rat(60 * SampleRate * d, n)

\* faulty variant: _update_bpm that already re-estimates from 3 timestamps
UpdateBpmFromThree(bt) ==
    IF Len(bt.beat_times) < 3 THEN bt
    ELSE LET valid == ValidIntervals(Intervals(bt.beat_times))
         IN  IF valid = <<>> THEN bt
             ELSE [bt EXCEPT !.beat_interval = Rat(Sum(valid), Len(valid)),
                             !.estimated_bpm = ClampBpm(Sum(valid), Len(valid))]

\* faulty variant: _update_bpm that divides the summed intervals by the number of beats
UpdateBpmPerBeat(bt) ==
    IF Len(bt.beat_times) < 4 THEN bt
    ELSE LET valid == ValidIntervals(Intervals(bt.beat_times))
         IN  IF valid = <<>> THEN bt
             ELSE [bt EXCEPT !.beat_interval = Rat(Sum(valid), Len(valid) + 1),
                             !.estimated_bpm = ClampBpm(Sum(valid), Len(valid) + 1)]

\* BeatTracker._update_bpm on a tracker whose beat_times already holds the new beat
UpdateBpm(bt) ==
    IF Len(bt.beat_times) < 4 THEN bt
    ELSE LET valid == ValidIntervals(Intervals(bt.beat_times))
         IN  IF valid = <<>> THEN bt
             ELSE [bt EXCEPT !.beat_interval = Rat(Sum(valid), Len(valid)),
                             !.estimated_bpm = ClampBpm(Sum(valid), Len(valid))]

\* onset_strength > self.onset_threshold, for onset_strength = energy / (avg + 1e-10)
\* and avg = prior_sum / prior_n.  On the rms grid the epsilon only decides the
\* case avg = 0, where any positive energy exceeds the threshold.
OnsetOver(energy, prior_sum, prior_n) ==
    OnsetDen * prior_n * energy > OnsetNum * prior_sum

\* faulty variant: a gate that lets a beat through at the time of the last one
GateOpenSameInstant(time_since_last, bi) == time_since_last >= 0

\* faulty variant: a gate that only asks for time to have passed since the last beat
GateOpenAnyTime(time_since_last, bi) == time_since_last > 0

\* time_since_last > min_interval, for min_interval = beat_interval * 0.7
GateOpen(time_since_last, bi) ==
    GateDen * time_since_last * bi.d > GateNum * bi.n

\* faulty variant: a beat floor that only asks for a non-zero chunk
AboveFloorNonZero(energy) == energy > 0

\* energy > 0.002
AboveFloor(energy) == energy > SilenceFloor

\* min(onset_strength / self.onset_threshold, 2.0), in thousandths
OnsetStrength(energy, prior_sum, prior_n) ==
    IF prior_sum = 0 THEN (IF energy > 0 THEN OnsetCap ELSE 0)
    ELSE Min((1000 * OnsetDen * prior_n * energy) \div (OnsetNum * prior_sum), OnsetCap)

\* BeatTracker.process(audio_chunk, current_time), the chunk given by its rms.
\* Returns the tracker after the call and the pair it returns.
BeatTrackerProcess(bt, energy, current_time) ==
    LET hist == AppendCap(bt.energy_history, energy, EnergyCap)
        bt1  == [bt EXCEPT !.energy_history = hist]
    IN  IF Len(hist) < 3
        THEN [tracker |-> bt1, beat_detected |-> FALSE, onset_strength |-> 0]
        ELSE LET prior   == SubSeq(hist, 1, Len(hist) - 1)
                 psum    == Sum(prior)
                 pn      == Len(prior)
                 since   == current_time - bt.last_beat_time
                 beat    == /\ OnsetOver(energy, psum, pn)
                            /\ GateOpen(since, bt.beat_interval)
                            /\ AboveFloor(energy)
                 bt2     == IF beat
                            THEN UpdateBpm([bt1 EXCEPT
                                     !.beat_times = AppendCap(bt.beat_times, current_time, BeatCap),
                                     !.last_beat_time = current_time])
                            ELSE bt1
             IN  [tracker |-> bt2, beat_detected |-> beat,
                  onset_strength |-> OnsetStrength(energy, psum, pn)]

\* BeatTracker.get_beat_phase(current_time), in thousandths of a beat
GetBeatPhase(bt, current_time) ==
    IF bt.beat_interval.n <= 0 THEN 0
    ELSE LET x == (current_time - bt.last_beat_time) * bt.beat_interval.d
             n == bt.beat_interval.n
         IN  ((x % n) * 1000) \div n

----------------------------------------------------------------------------
(* FrequencyAnalyzer  (audio_analyzer.py)                                  *)

\* smoothing_factor = 0.3, in tenths
SmoothingTenths == 3

\* BASS_RANGE, MID_RANGE and TREBLE_RANGE of config.py, in Hz
BASS_RANGE == <<20, 250>>

MID_RANGE == <<250, 2000>>

TREBLE_RANGE == <<2000, 12000>>

\* the default fft_size of FrequencyAnalyzer.__init__
DefaultFftSize == 2048

\* np.where((freqs >= range[0]) & (freqs <= range[1]))[0] for
\* freqs = np.fft.rfftfreq(fft_size, 1.0 / sample_rate): bin k of
\* 0 .. fft_size // 2 is centred on k * sample_rate / fft_size Hz
BandBins(range, sample_rate, fft_size) ==
    { k \in 0 .. (fft_size \div 2) :
        /\ range[1] * fft_size <= k * sample_rate
        /\ k * sample_rate <= range[2] * fft_size }

\* FrequencyAnalyzer.__init__(sample_rate, fft_size)
FreqAnalyzerNew(sample_rate, fft_size) ==
    [ sample_rate   |-> sample_rate,
      fft_size      |-> fft_size,
      bass_bins     |-> BandBins(BASS_RANGE, sample_rate, fft_size),
      mid_bins      |-> BandBins(MID_RANGE, sample_rate, fft_size),
      treble_bins   |-> BandBins(TREBLE_RANGE, sample_rate, fft_size),
      bass_smooth   |-> 0,
      mid_smooth    |-> 0,
      treble_smooth |-> 0 ]

\* the FrequencyAnalyzer(sample_rate) an AudioAnalyzer constructs
FreqAnalyzerInit == FreqAnalyzerNew(SampleRate, DefaultFftSize)

\* smooth * smoothing_factor + raw * (1 - smoothing_factor)
BandSmooth(smooth, raw) ==
    (smooth * SmoothingTenths + raw * (10 - SmoothingTenths)) \div 10

\* FrequencyAnalyzer.process, the chunk given by its three normalised band
\* levels min(mean(spectrum[bins]) / divisor, 1.0), in thousandths.
FreqAnalyzerProcess(fa, chunk) ==
    [ fa EXCEPT !.bass_smooth   = BandSmooth(fa.bass_smooth, chunk.bass),
                !.mid_smooth    = BandSmooth(fa.mid_smooth, chunk.mid),
                !.treble_smooth = BandSmooth(fa.treble_smooth, chunk.treble) ]

----------------------------------------------------------------------------
(* AudioAnalyzer  (audio_analyzer.py)                                      *)

\* AudioFeatures(): the dataclass defaults
DefaultFeatures ==
    [ bass |-> 0, mid |-> 0, treble |-> 0, rms |-> 0,
      beat_detected |-> FALSE, onset_strength |-> 0,
      bpm |-> [n |-> 120, d |-> 1], beat_phase |-> 0,
      is_silent |-> TRUE, timestamp |-> 0 ]

AnalyzerInit ==
    [ is_running      |-> FALSE,
      callback        |-> FALSE,
      stream          |-> "none",
      frames_silent   |-> 0,
      latest_features |-> DefaultFeatures,
      feature_queue   |-> <<>> ]

\* rms < self.silence_threshold
ChunkSilent(rms) == rms < silence_threshold

\* frames_silent += 1 on a silent chunk, reset to 0 otherwise
NextFramesSilent(frames, rms) == IF ChunkSilent(rms) THEN frames + 1 ELSE 0

\* is_silent and self.frames_silent > 10
Debounced(rms, frames) == ChunkSilent(rms) /\ frames > SilenceFrames

\* min(rms * 10, 1.0) in thousandths, for rms in units of 0.0005
DisplayRms(rms) == Min(rms * 5, 1000)

\* feature_queue.put_nowait(features); queue.Full is swallowed
PutNowait(q, f) == IF Len(q) >= QueueCap THEN q ELSE Append(q, f)

\* AudioAnalyzer._audio_callback for one chunk delivered dt ticks after the
\* previous one.  A chunk is [rms, bass, mid, treble].  The callback leaves
\* the audio source (track) to whoever feeds it.
AudioCallback(chunk, dt) ==
    LET current_time == now + dt
        frames   == NextFramesSilent(analyzer.frames_silent, chunk.rms)
        res      == BeatTrackerProcess(beat_tracker, chunk.rms, current_time)
        fa       == FreqAnalyzerProcess(freq_analyzer, chunk)
        features == [ bass           |-> fa.bass_smooth,
                      mid            |-> fa.mid_smooth,
                      treble         |-> fa.treble_smooth,
                      rms            |-> DisplayRms(chunk.rms),
                      beat_detected  |-> res.beat_detected,
                      onset_strength |-> res.onset_strength,
                      bpm            |-> res.tracker.estimated_bpm,
                      beat_phase     |-> GetBeatPhase(res.tracker, current_time),
                      is_silent      |-> Debounced(chunk.rms, frames),
                      timestamp      |-> current_time ]
    IN  /\ now' = current_time
        /\ beat_tracker' = res.tracker
        /\ freq_analyzer' = fa
        /\ analyzer' = [analyzer EXCEPT !.frames_silent = frames,
                                        !.latest_features = features,
                                        !.feature_queue = PutNowait(@, features)]
        /\ op' = [name |-> "audio_callback", rms |-> chunk.rms, time |-> current_time,
                  beat_detected |-> res.beat_detected,
                  onset_strength |-> res.onset_strength]
        /\ nsteps' = nsteps + 1
        /\ UNCHANGED <<mapper, controller, robot, packaged, app>>

\* faulty variant: start that falls back to the default device when the
\* requested one cannot be opened
StartAnalyzerFallsBack(a, device, device_ok) ==
    IF a.is_running THEN [analyzer |-> a, calls |-> <<>>, raised |-> FALSE]
    ELSE [ analyzer |-> [a EXCEPT !.is_running = TRUE, !.stream = "open"],
           calls    |-> IF device_ok
                        THEN << [call |-> "open", device |-> device], [call |-> "start", device |-> device] >>
                        ELSE << [call |-> "open", device |-> device],
                                [call |-> "open", device |-> "default"],
                                [call |-> "start", device |-> "default"] >>,
           raised   |-> FALSE ]

\* AudioAnalyzer.start() on analyzer a opened for device; device_ok is "the
\* device can be opened".  Returns the analyzer, the calls made on the audio
\* device, and whether an exception left start (sd.InputStream raising).
StartAnalyzer(a, device, device_ok) ==
    IF a.is_running THEN [analyzer |-> a, calls |-> <<>>, raised |-> FALSE]
    ELSE IF ~device_ok
    THEN [ analyzer |-> [a EXCEPT !.is_running = TRUE],
           calls    |-> << [call |-> "open", device |-> device] >>,
           raised   |-> TRUE ]
    ELSE [ analyzer |-> [a EXCEPT !.is_running = TRUE, !.stream = "open"],
           calls    |-> << [call |-> "open", device |-> device], [call |-> "start", device |-> device] >>,
           raised   |-> FALSE ]

\* faulty variant: stop that keeps the stream handle
StopAnalyzerKeepsHandle(a) ==
    IF a.stream = "none" THEN [analyzer |-> [a EXCEPT !.is_running = FALSE], calls |-> <<>>]
    ELSE [ analyzer |-> [a EXCEPT !.is_running = FALSE],
           calls    |-> << [call |-> "stop"], [call |-> "close"] >> ]

\* AudioAnalyzer.stop(): the analyzer after it and the calls made on the stream
StopAnalyzer(a) ==
    IF a.stream = "none" THEN [analyzer |-> [a EXCEPT !.is_running = FALSE], calls |-> <<>>]
    ELSE [ analyzer |-> [a EXCEPT !.is_running = FALSE, !.stream = "none"],
           calls    |-> << [call |-> "stop"], [call |-> "close"] >> ]

\* faulty variant: get_latest that takes the oldest snapshot still queued
GetLatestQueued(a) ==
    IF a.feature_queue = <<>> THEN a.latest_features ELSE Head(a.feature_queue)

\* AudioAnalyzer.get_latest()
GetLatest(a) == a.latest_features

\* analyzer = AudioAnalyzer(callback=...): a new analyzer with a new tracker
\* and frequency analyzer; callback is "a user callback was given"
AnalyzerConstruct(callback) ==
    /\ analyzer' = [AnalyzerInit EXCEPT !.callback = callback]
    /\ beat_tracker' = BeatTrackerInit
    /\ freq_analyzer' = FreqAnalyzerInit
    /\ app' = [app EXCEPT !.audio = [pc |-> "idle", pending |-> DefaultFeatures,
                                     published |-> DefaultFeatures]]
    /\ op' = [name |-> "construct_analyzer", callback |-> callback]
    /\ nsteps' = nsteps + 1
    /\ UNCHANGED <<now, mapper, controller, robot, packaged>>

\* AudioAnalyzer.get_features(): the oldest snapshot on the queue, taken off
\* it, or None (found FALSE) when the queue stays empty for the timeout
GetFeatures(a) ==
    IF a.feature_queue = <<>>
    THEN [analyzer |-> a, found |-> FALSE, features |-> DefaultFeatures]
    ELSE [ analyzer |-> [a EXCEPT !.feature_queue = Tail(@)],
           found    |-> TRUE,
           features |-> Head(a.feature_queue) ]

\* features = analyzer.get_features()
AnalyzerGetFeatures ==
    LET res == GetFeatures(analyzer)
    IN  /\ analyzer' = res.analyzer
        /\ op' = [name |-> "get_features", found |-> res.found, features |-> res.features]
        /\ nsteps' = nsteps + 1
        /\ UNCHANGED <<now, beat_tracker, freq_analyzer, mapper, controller, robot, packaged,
                       track, app>>

\* freq_analyzer = FrequencyAnalyzer(sample_rate, fft_size)
FreqAnalyzerConstruct(sample_rate, fft_size) ==
    /\ freq_analyzer' = FreqAnalyzerNew(sample_rate, fft_size)
    /\ op' = [name |-> "construct_freq_analyzer", sample_rate |-> sample_rate,
              fft_size |-> fft_size]
    /\ nsteps' = nsteps + 1
    /\ UNCHANGED <<now, beat_tracker, analyzer, mapper, controller, robot, packaged, track, app>>

\* freq_analyzer.process(chunk) called on its own
FreqAnalyzerStep(chunk) ==
    /\ freq_analyzer' = FreqAnalyzerProcess(freq_analyzer, chunk)
    /\ op' = [name |-> "freq_process", bass |-> freq_analyzer'.bass_smooth]
    /\ nsteps' = nsteps + 1
    /\ UNCHANGED <<now, beat_tracker, analyzer, mapper, controller, robot, packaged, track, app>>

\* AudioAnalyzer._audio_callback for a chunk whose processing fails.  The
\* callback has no exception handler, so the exception leaves it with the
\* statements before the failing one done:
\*   "malformed"  indata has no shape or cannot be averaged (lines 234-242)
\*   "tracker"    self.beat_tracker.process raises on entry (line 251)
\*   "freq"       self.freq_analyzer.process raises on entry (line 254)
\*   "callback"   the user callback raises (line 281)
AudioCallbackFails(chunk, dt, fault) ==
    LET current_time == now + dt
        frames   == NextFramesSilent(analyzer.frames_silent, chunk.rms)
        res      == BeatTrackerProcess(beat_tracker, chunk.rms, current_time)
        fa       == FreqAnalyzerProcess(freq_analyzer, chunk)
        features == [ bass           |-> fa.bass_smooth,
                      mid            |-> fa.mid_smooth,
                      treble         |-> fa.treble_smooth,
                      rms            |-> DisplayRms(chunk.rms),
                      beat_detected  |-> res.beat_detected,
                      onset_strength |-> res.onset_strength,
                      bpm            |-> res.tracker.estimated_bpm,
                      beat_phase     |-> GetBeatPhase(res.tracker, current_time),
                      is_silent      |-> Debounced(chunk.rms, frames),
                      timestamp      |-> current_time ]
    IN  /\ fault \in {"malformed", "tracker", "freq", "callback"}
        /\ fault = "callback" => analyzer.callback
        /\ now' = current_time
        /\ beat_tracker' = IF fault \in {"freq", "callback"} THEN res.tracker ELSE beat_tracker
        /\ freq_analyzer' = IF fault = "callback" THEN fa ELSE freq_analyzer
        /\ analyzer' =
              CASE fault = "malformed" -> analyzer
                [] fault \in {"tracker", "freq"} -> [analyzer EXCEPT !.frames_silent = frames]
                [] fault = "callback" ->
                      [analyzer EXCEPT !.frames_silent = frames,
                                       !.latest_features = features,
                                       !.feature_queue = PutNowait(@, features)]
        /\ op' = [name |-> "audio_callback_failed", fault |-> fault, rms |-> chunk.rms,
                  time |-> current_time, raised |-> TRUE]
        /\ nsteps' = nsteps + 1
        /\ UNCHANGED <<mapper, controller, robot, packaged, app>>

----------------------------------------------------------------------------
(* AudioAnalyzer of the packaged app  (reachy_mini_dj_reactor/main.py)     *)
(* It keeps the beat-tracking fields itself and has no debounce counter.   *)

\* AudioFeatures() of main.py: no timestamp field
PackagedDefaultFeatures ==
    [ bass |-> 0, mid |-> 0, treble |-> 0, rms |-> 0,
      beat_detected |-> FALSE, onset_strength |-> 0,
      bpm |-> [n |-> 120, d |-> 1], beat_phase |-> 0, is_silent |-> TRUE ]

\* AudioAnalyzer.__init__(sensitivity=...), sensitivity in thousandths
PackagedInit(sensitivity) ==
    [ sensitivity     |-> sensitivity,
      energy_history  |-> <<>>,
      beat_times      |-> <<>>,
      last_beat_time  |-> 0,
      estimated_bpm   |-> [n |-> 120, d |-> 1],
      beat_interval   |-> [n |-> SampleRate \div 2, d |-> 1],
      is_running      |-> FALSE,
      stream          |-> "none",
      latest_features |-> PackagedDefaultFeatures ]

\* onset_threshold = 1.1 + (1.0 - sensitivity) * 0.5, in thousandths
PackagedOnsetThreshold(sensitivity) == 1100 + (1000 - sensitivity) \div 2

\* min_interval = 0.2 + (1.0 - sensitivity) * 0.2 seconds, in ticks
PackagedMinInterval(sensitivity) ==
    ((200 + (1000 - sensitivity) \div 5) * SampleRate) \div 1000

\* is_silent = rms < 0.001
PackagedSilent(rms) == rms < 2

\* AudioAnalyzer._audio_callback of main.py for one chunk, dt ticks after the last
PackagedAudioCallback(chunk, dt) ==
    LET current_time == now + dt
        a        == packaged
        rms      == chunk.rms
        hist     == AppendCap(a.energy_history, rms, EnergyCap)
        thr      == PackagedOnsetThreshold(a.sensitivity)
        prior    == SubSeq(hist, 1, Len(hist) - 1)
        psum     == Sum(prior)
        pn       == Len(prior)
        strength == IF Len(hist) < 3 THEN 0
                    ELSE IF psum = 0 THEN (IF rms > 0 THEN OnsetCap ELSE 0)
                    ELSE Min((1000000 * pn * rms) \div (thr * psum), OnsetCap)
        beat     == /\ Len(hist) >= 3
                    /\ 1000 * pn * rms > thr * psum
                    /\ current_time - a.last_beat_time > PackagedMinInterval(a.sensitivity)
                    /\ rms > SilenceFloor
        a1       == [a EXCEPT !.energy_history = hist]
        a2       == IF beat
                    THEN UpdateBpm([a1 EXCEPT
                             !.beat_times = AppendCap(a.beat_times, current_time, BeatCap),
                             !.last_beat_time = current_time])
                    ELSE a1
        features == [ bass           |-> chunk.bass,
                      mid            |-> chunk.mid,
                      treble         |-> chunk.treble,
                      rms            |-> DisplayRms(rms),
                      beat_detected  |-> beat,
                      onset_strength |-> strength,
                      bpm            |-> a2.estimated_bpm,
                      beat_phase     |-> GetBeatPhase(a2, current_time),
                      is_silent      |-> PackagedSilent(rms) ]
    IN  /\ now' = current_time
        /\ packaged' = [a2 EXCEPT !.latest_features = features]
        /\ op' = [name |-> "packaged_audio_callback", rms |-> rms, time |-> current_time,
                  beat_detected |-> beat, onset_strength |-> strength]
        /\ nsteps' = nsteps + 1
        /\ UNCHANGED <<beat_tracker, freq_analyzer, analyzer, mapper, controller, robot, track,
                       app>>

\* AudioAnalyzer.update_sensitivity of main.py
PackagedUpdateSensitivity(sensitivity) ==
    /\ packaged' = [packaged EXCEPT !.sensitivity = Max(200, Min(1000, sensitivity))]
    /\ op' = [name |-> "packaged_update_sensitivity", sensitivity |-> sensitivity]
    /\ nsteps' = nsteps + 1
    /\ UNCHANGED <<now, beat_tracker, freq_analyzer, analyzer, mapper, controller, robot, track,
                   app>>

----------------------------------------------------------------------------
(* GenrePreset and GENRE_PRESETS  (config.py)                              *)

Preset(name, bob, sway, ant_style, ant_amp, emphasis, idle, rnd, smoothing) ==
    [ name                |-> name,
      head_bob_amplitude  |-> bob,
      body_sway_amplitude |-> sway,
      antenna_style       |-> ant_style,
      antenna_amplitude   |-> ant_amp,
      emphasis_style      |-> emphasis,
      idle_style          |-> idle,
      randomness          |-> rnd,
      movement_smoothing  |-> smoothing ]

GENRE_PRESETS ==
    [ rock       |-> Preset("rock", 12000, 15000, "dramatic", 700, "headbang", "nodding", 300, 300),
      electronic |-> Preset("electronic", 10000, 25000, "pulse", 600, "nod", "breathing", 150, 400),
      jazz       |-> Preset("jazz", 5000, 30000, "sway", 300, "tilt", "swaying", 400, 600),
      pop        |-> Preset("pop", 8000, 20000, "bounce", 500, "nod", "breathing", 250, 300),
      classical  |-> Preset("classical", 3000, 35000, "sway", 200, "tilt", "breathing", 200, 700),
      hiphop     |-> Preset("hiphop", 10000, 15000, "flick", 500, "freeze", "nodding", 300, 300),
      chill      |-> Preset("chill", 4000, 25000, "sway", 200, "tilt", "breathing", 150, 800) ]

----------------------------------------------------------------------------
(* MovementCommand and MovementMapper  (music_animations.py)               *)

\* a * b for two numbers in thousandths, rounded towards zero
MulM(a, b) ==
    IF (a < 0) = (b < 0) THEN (Abs(a) * Abs(b)) \div 1000
    ELSE -((Abs(a) * Abs(b)) \div 1000)

\* math.sin of an angle given in thousandths of a turn, in thousandths
\* (Bhaskara's rational approximation on each half turn).
SinTurn(p) ==
    LET q == p % 1000
        h == q % 500
        v == (4000 * h * (500 - h)) \div (312500 - h * (500 - h))
    IN  IF q < 500 THEN v ELSE -v

\* math.sin(idle_phase * c) for idle_phase = 0.02 * k radians and c = c10 / 10:
\* one radian is 159.155 thousandths of a turn.
SinIdle(k, c10) == SinTurn((k * c10 * 31831) \div 100000)

Command(z, roll, pitch, yaw, al, ar, duration, priority) ==
    [ head_z |-> z, head_roll |-> roll, head_pitch |-> pitch, body_yaw |-> yaw,
      antenna_left |-> al, antenna_right |-> ar,
      duration |-> duration, priority |-> priority ]

\* MovementCommand(): the dataclass defaults (duration in ms)
DefaultCommand == Command(0, 0, 0, 0, 0, 0, 100, 0)

\* MovementMapper.__init__(preset, intensity, sensitivity)
MapperInit(preset, intensity, sensitivity) ==
    [ preset           |-> preset,
      intensity        |-> intensity,
      sensitivity      |-> sensitivity,
      phase            |-> 0,
      last_beat_time   |-> 0,
      is_idle          |-> TRUE,
      idle_phase       |-> 0,
      smooth_head_z    |-> 0,
      smooth_head_roll |-> 0,
      smooth_body_yaw  |-> 0,
      smooth_antenna_l |-> 0,
      smooth_antenna_r |-> 0,
      feature_history  |-> <<>> ]

\* deque(maxlen=30)
FeatureHistoryCap == 30

\* MovementMapper._get_antenna_movement; side is random.choice's pick for "flick"
GetAntennaMovement(features, preset, side) ==
    LET treble == MulM(features.treble, preset.antenna_amplitude)
        phase  == features.beat_phase
    IN  CASE preset.antenna_style = "pulse" ->
                LET value == MulM(treble, 1000 - phase) IN <<value, value>>
          [] preset.antenna_style = "flick" ->
                IF features.beat_detected
                THEN IF side = 1 THEN <<MulM(600, treble) * 2, MulM(-200, treble) * 2>>
                                 ELSE <<MulM(-200, treble) * 2, MulM(600, treble) * 2>>
                ELSE <<0, 0>>
          [] preset.antenna_style = "sway" ->
                LET offset == MulM(SinTurn(phase), treble)
                IN  <<MulM(offset, 300), -MulM(offset, 300)>>
          [] preset.antenna_style = "bounce" ->
                LET bounce == MulM(Abs(SinTurn(2 * phase)), treble)
                IN  <<MulM(bounce, 400), MulM(bounce, 400)>>
          [] preset.antenna_style = "dramatic" ->
                IF features.beat_detected
                THEN <<MulM(700, treble), MulM(700, treble)>>
                ELSE <<MulM(-200, treble), MulM(-200, treble)>>
          [] OTHER -> <<0, 0>>

\* MovementMapper._get_continuous_movement
GetContinuousMovement(m, features, side) ==
    LET preset    == m.preset
        body_sway == MulM(MulM(features.bass, preset.body_sway_amplitude),
                          SinTurn(features.beat_phase))
        head_z    == MulM(MulM(MulM(features.mid, preset.head_bob_amplitude), 500),
                          SinTurn(2 * features.beat_phase))
        antenna   == GetAntennaMovement(features, preset, side)
    IN  Command(head_z, 0, 0, body_sway, antenna[1], antenna[2], 50, 0)

\* MovementMapper._get_beat_movement; coin is random.choice([-1, 1]) for "tilt"
GetBeatMovement(m, features, coin) ==
    LET preset   == m.preset
        strength == MulM(features.onset_strength, m.sensitivity)
        head_z   == -MulM(preset.head_bob_amplitude, strength)
        roll     == IF preset.emphasis_style = "tilt" THEN coin * 15 * strength ELSE 0
        pitch    == CASE preset.emphasis_style = "headbang" -> -20 * strength
                      [] preset.emphasis_style = "nod" -> -10 * strength
                      [] OTHER -> 0
    IN  Command(head_z, roll, pitch, 0, MulM(400, strength), MulM(400, strength), 100, 1)

\* faulty variant: _blend_commands that gives the weight to the first command
BlendCommandsFirstDominant(cmd1, cmd2, weight) ==
    LET mix(a, b) == MulM(a, weight) + MulM(b, 1000 - weight)
    IN  Command(mix(cmd1.head_z, cmd2.head_z),
                mix(cmd1.head_roll, cmd2.head_roll),
                mix(cmd1.head_pitch, cmd2.head_pitch),
                mix(cmd1.body_yaw, cmd2.body_yaw),
                mix(cmd1.antenna_left, cmd2.antenna_left),
                mix(cmd1.antenna_right, cmd2.antenna_right),
                Min(cmd1.duration, cmd2.duration),
                Max(cmd1.priority, cmd2.priority))

\* MovementMapper._blend_commands(cmd1, cmd2, weight), weight in thousandths
BlendCommands(cmd1, cmd2, weight) ==
    LET w1 == 1000 - weight
        w2 == weight
        mix(a, b) == MulM(a, w1) + MulM(b, w2)
    IN  Command(mix(cmd1.head_z, cmd2.head_z),
                mix(cmd1.head_roll, cmd2.head_roll),
                mix(cmd1.head_pitch, cmd2.head_pitch),
                mix(cmd1.body_yaw, cmd2.body_yaw),
                mix(cmd1.antenna_left, cmd2.antenna_left),
                mix(cmd1.antenna_right, cmd2.antenna_right),
                Min(cmd1.duration, cmd2.duration),
                Max(cmd1.priority, cmd2.priority))

\* MovementMapper._scale_by_intensity
ScaleByIntensity(m, cmd) ==
    Command(MulM(cmd.head_z, m.intensity), MulM(cmd.head_roll, m.intensity),
            MulM(cmd.head_pitch, m.intensity), MulM(cmd.body_yaw, m.intensity),
            MulM(cmd.antenna_left, m.intensity), MulM(cmd.antenna_right, m.intensity),
            cmd.duration, cmd.priority)

\* smooth * factor + value * (1 - factor)
Smooth(smooth, value, factor) == MulM(smooth, factor) + MulM(value, 1000 - factor)

\* MovementMapper._smooth_movement: the mapper with its accumulators updated
SmoothMapper(m, cmd) ==
    LET factor == m.preset.movement_smoothing
    IN  [m EXCEPT !.smooth_head_z    = Smooth(@, cmd.head_z, factor),
                  !.smooth_head_roll = Smooth(@, cmd.head_roll, factor),
                  !.smooth_body_yaw  = Smooth(@, cmd.body_yaw, factor),
                  !.smooth_antenna_l = Smooth(@, cmd.antenna_left, factor),
                  !.smooth_antenna_r = Smooth(@, cmd.antenna_right, factor)]

\* faulty variant: _smooth_movement that also low-passes the pitch, against the roll accumulator
SmoothedCommandLowPassPitch(m, cmd) ==
    Command(m.smooth_head_z, m.smooth_head_roll,
            Smooth(m.smooth_head_z, cmd.head_pitch, m.preset.movement_smoothing),
            m.smooth_body_yaw, m.smooth_antenna_l, m.smooth_antenna_r,
            cmd.duration, cmd.priority)

\* MovementMapper._smooth_movement: the command it returns, m the updated mapper
SmoothedCommand(m, cmd) ==
    Command(m.smooth_head_z, m.smooth_head_roll, cmd.head_pitch, m.smooth_body_yaw,
            m.smooth_antenna_l, m.smooth_antenna_r, cmd.duration, cmd.priority)

\* MovementMapper._add_variation; z holds the six standard-normal draws
\* behind random.gauss(0, sigma), as integers
AddVariation(m, cmd, z) ==
    LET r == m.preset.randomness
    IN  IF r <= 0 THEN cmd
        ELSE Command(cmd.head_z + z[1] * r * 2,
                     cmd.head_roll + z[2] * r * 3,
                     cmd.head_pitch + z[3] * r * 2,
                     cmd.body_yaw + z[4] * r * 5,
                     cmd.antenna_left + (z[5] * r) \div 10,
                     cmd.antenna_right + (z[6] * r) \div 10,
                     cmd.duration, cmd.priority)

\* the command MovementMapper._get_idle_movement returns once idle_phase is k * 0.02
IdleCommand(preset, k) ==
    CASE preset.idle_style = "breathing" ->
            LET breath == MulM(SinIdle(k, 10), 150)
            IN  Command(breath * 3, 0, 0, 0, breath, breath, 200, 0)
      [] preset.idle_style = "swaying" ->
            LET sway == SinIdle(k, 5) * 15
            IN  Command(0, MulM(sway, 200), 0, sway, 0, 0, 300, 0)
      [] preset.idle_style = "nodding" ->
            Command(0, 0, SinIdle(k, 7) * 5, 0, 0, 0, 200, 0)
      [] preset.idle_style = "still" -> Command(0, 0, 0, 0, 0, 0, 500, 0)
      [] OTHER -> Command(0, 0, 0, 0, 0, 0, 200, 0)

\* faulty variant: _get_idle_movement whose command goes through the smoothing
GetIdleMovementSmoothed(m) ==
    LET m1  == [m EXCEPT !.is_idle = TRUE, !.idle_phase = @ + 1]
        cmd == IdleCommand(m1.preset, m1.idle_phase)
        m2  == SmoothMapper(m1, cmd)
    IN  [mapper |-> m2, cmd |-> SmoothedCommand(m2, cmd)]

\* faulty variant: _get_idle_movement that advances the phase without setting is_idle
GetIdleMovementNoFlag(m) ==
    LET m1 == [m EXCEPT !.idle_phase = @ + 1]
    IN  [mapper |-> m1, cmd |-> IdleCommand(m1.preset, m1.idle_phase)]

\* MovementMapper._get_idle_movement: is_idle set, idle_phase advanced by 0.02
GetIdleMovement(m) ==
    LET m1 == [m EXCEPT !.is_idle = TRUE, !.idle_phase = @ + 1]
    IN  [mapper |-> m1, cmd |-> IdleCommand(m1.preset, m1.idle_phase)]

\* MovementMapper.process(features); rnd holds the random draws of the tick:
\* coin (tilt sign), side (flick side) and z (the six gaussian draws).
MapperProcess(m, features, rnd) ==
    LET m0 == [m EXCEPT !.feature_history = AppendCap(@, features, FeatureHistoryCap)]
    IN  IF features.is_silent THEN GetIdleMovement(m0)
        ELSE LET m1   == [m0 EXCEPT !.is_idle = FALSE]
                 cont == GetContinuousMovement(m1, features, rnd.side)
                 cmd1 == IF features.beat_detected
                         THEN BlendCommands(cont, GetBeatMovement(m1, features, rnd.coin), 700)
                         ELSE cont
                 m2   == IF features.beat_detected
                         THEN [m1 EXCEPT !.last_beat_time = features.timestamp]
                         ELSE m1
                 cmd2 == ScaleByIntensity(m2, cmd1)
                 m3   == SmoothMapper(m2, cmd2)
                 cmd3 == SmoothedCommand(m3, cmd2)
             IN  [mapper |-> m3, cmd |-> AddVariation(m3, cmd3, rnd.z)]

\* faulty variant: update_preset that rebuilds the mapper around the new preset
UpdatePresetRebuilds(m, preset) == MapperInit(preset, m.intensity, m.sensitivity)

\* MovementMapper.update_preset / update_intensity / update_sensitivity
UpdatePreset(m, preset) == [m EXCEPT !.preset = preset]

UpdateIntensity(m, intensity) == [m EXCEPT !.intensity = Max(0, Min(1000, intensity))]

UpdateSensitivity(m, sensitivity) == [m EXCEPT !.sensitivity = Max(0, Min(1000, sensitivity))]

----------------------------------------------------------------------------
(* RobotController  (music_animations.py)                                  *)

\* A Python float at the actuator boundary: a number in thousandths, or NaN.
F(v) == [nan |-> FALSE, v |-> v]

NaN == [nan |-> TRUE, v |-> 0]

\* a < b on floats: every comparison with NaN is false
FLt(a, b) == ~a.nan /\ ~b.nan /\ a.v < b.v

\* the builtins min(a, b) and max(a, b): the first argument unless the second beats it
PyMin(a, b) == IF FLt(b, a) THEN b ELSE a

PyMax(a, b) == IF FLt(a, b) THEN b ELSE a

\* faulty variant: a clamp that bounds the value from above only
SafetyClampUpperOnly(limit, value) == PyMin(F(limit), value)

\* max(-limit, min(limit, value))
SafetyClamp(limit, value) == PyMax(F(-limit), PyMin(F(limit), value))

\* np.deg2rad on thousandths of a degree, giving thousandths of a radian,
\* rounded towards zero (the whole degrees and the rest are scaled separately
\* so that no product leaves the 32-bit range)
Deg2Rad(x) ==
    LET a == Abs(x.v)
        r == ((a \div 1000) * 17453 + ((a % 1000) * 17453) \div 1000) \div 1000
    IN  IF x.nan THEN x ELSE F(IF x.v < 0 THEN -r ELSE r)

\* RobotController.__init__(robot): has_robot is "robot is not None",
\* has_head_pose is "create_head_pose could be imported"
ControllerInit(has_robot, has_head_pose) ==
    [ robot             |-> has_robot,
      create_head_pose  |-> has_head_pose,
      is_enabled        |-> TRUE,
      last_command_time |-> 0,
      max_head_z        |-> 15000,
      max_head_roll     |-> 40000,
      max_head_pitch    |-> 40000,
      max_body_yaw      |-> 60000,
      max_antenna       |-> 800 ]

\* the field of a command as a float; nans names the fields that hold NaN
Field(cmd, nans, name) == IF name \in nans THEN NaN ELSE F(cmd[name])

\* "Apply safety limits": the six clamped locals of execute
SafetyLimits(c, cmd, nans) ==
    [ head_z     |-> SafetyClamp(c.max_head_z, Field(cmd, nans, "head_z")),
      head_roll  |-> SafetyClamp(c.max_head_roll, Field(cmd, nans, "head_roll")),
      head_pitch |-> SafetyClamp(c.max_head_pitch, Field(cmd, nans, "head_pitch")),
      body_yaw   |-> SafetyClamp(c.max_body_yaw, Field(cmd, nans, "body_yaw")),
      antenna_l  |-> SafetyClamp(c.max_antenna, Field(cmd, nans, "antenna_left")),
      antenna_r  |-> SafetyClamp(c.max_antenna, Field(cmd, nans, "antenna_right")) ]

\* the arguments of robot.goto_target(head=create_head_pose(z, roll), antennas,
\* body_yaw, duration, method)
GotoCall(lim, cmd) ==
    [ head_z   |-> lim.head_z,
      head_roll |-> lim.head_roll,
      antennas |-> <<lim.antenna_l, lim.antenna_r>>,
      body_yaw |-> Deg2Rad(lim.body_yaw),
      duration |-> cmd.duration,
      method   |-> "minjerk" ]

NoCall ==
    [ head_z |-> F(0), head_roll |-> F(0), antennas |-> <<F(0), F(0)>>,
      body_yaw |-> F(0), duration |-> 0, method |-> "none" ]

RobotInit == [calls |-> 0, last |-> NoCall]

\* faulty variant: execute that stamps last_command_time before it knows that
\* goto_target went through
ExecuteStampsFirst(c, cmd, nans, outcome, t) ==
    LET lim == SafetyLimits(c, cmd, nans)
    IN  IF ~c.is_enabled \/ ~c.robot \/ ~c.create_head_pose
        THEN [controller |-> c, limits |-> lim, called |-> FALSE, call |-> NoCall,
              raised |-> FALSE]
        ELSE IF outcome = "pose_raises"
        THEN [controller |-> c, limits |-> lim, called |-> FALSE, call |-> NoCall,
              raised |-> FALSE]
        ELSE [controller |-> [c EXCEPT !.last_command_time = t], limits |-> lim,
              called |-> TRUE, call |-> GotoCall(lim, cmd), raised |-> FALSE]

\* RobotController.execute(cmd) at wall-clock time t.  outcome is what the SDK
\* does: "ok", "pose_raises" (create_head_pose raises) or "goto_raises"
\* (goto_target raises after receiving the call).  Returns the controller after
\* the call, the clamped locals, whether goto_target was called and with what,
\* and whether an exception left execute.
Execute(c, cmd, nans, outcome, t) ==
    LET lim == SafetyLimits(c, cmd, nans)
    IN  IF ~c.is_enabled \/ ~c.robot \/ ~c.create_head_pose
        THEN [controller |-> c, limits |-> lim, called |-> FALSE, call |-> NoCall,
              raised |-> FALSE]
        ELSE IF outcome = "pose_raises"
        THEN [controller |-> c, limits |-> lim, called |-> FALSE, call |-> NoCall,
              raised |-> FALSE]
        ELSE IF outcome = "goto_raises"
        THEN [controller |-> c, limits |-> lim, called |-> TRUE,
              call |-> GotoCall(lim, cmd), raised |-> FALSE]
        ELSE [controller |-> [c EXCEPT !.last_command_time = t], limits |-> lim,
              called |-> TRUE, call |-> GotoCall(lim, cmd), raised |-> FALSE]

\* the actuator after an execute
RobotAfter(r, res) ==
    IF res.called THEN [calls |-> r.calls + 1, last |-> res.call] ELSE r

----------------------------------------------------------------------------
(* Operations                                                              *)

\* f"{bpm:.0f}": the rational rounded to an integer, halves to the even one
FormatBpm(bpm) ==
    LET q == bpm.n \div bpm.d
        r == bpm.n % bpm.d
    IN  IF 2 * r > bpm.d \/ (2 * r = bpm.d /\ q % 2 = 1) THEN q + 1 ELSE q

Status(text, bpm) == [text |-> text, bpm |-> bpm]

\* the status message the vibe loop sets after a tick on these features
LoopStatus(features) ==
    IF features.is_silent THEN Status("Waiting for music...", 0)
    ELSE IF features.beat_detected THEN Status("BPM: - Beat!", FormatBpm(features.bpm))
    ELSE Status("BPM: - Vibing...", FormatBpm(features.bpm))

\* the vibe loop thread before it exists
NoLoop == [pc |-> "none", features |-> DefaultFeatures, cmd |-> DefaultCommand, session |-> 0]

\* the audio thread outside any callback: pending is the snapshot the
\* callback in progress has built, published the snapshot most recently
\* assigned to latest_features by a callback of the current analyzer
NoAudio == [pc |-> "idle", pending |-> DefaultFeatures, published |-> DefaultFeatures]

\* AppState.__init__ followed by initialize(); has_controller is "the robot
\* connection is not a mock".  analyzer and mapper count the instances
\* created so far; analyzer_set and mapper_set are "self.analyzer is not None"
\* and "self.mapper is not None".
AppInit(has_controller) ==
    [ config          |-> [genre |-> "electronic", intensity |-> 700, sensitivity |-> 600],
      has_controller  |-> has_controller,
      analyzer        |-> 0,
      analyzer_set    |-> FALSE,
      mapper          |-> 0,
      mapper_set      |-> FALSE,
      is_vibing       |-> FALSE,
      latest_features |-> DefaultFeatures,
      status_message  |-> Status("Ready to vibe", 0),
      vibe_thread     |-> 0,
      loop            |-> NoLoop,
      orphan          |-> NoLoop,
      stopper         |-> "idle",
      audio           |-> NoAudio,
      stream_calls    |-> <<>> ]

\* one sleep of the vibe loop, time.sleep(0.033), in ticks
TickTicks == 1455

\* controller.execute(cmd) called directly
ControllerExecute(cmd, nans, outcome) ==
    LET res == Execute(controller, cmd, nans, outcome, now)
    IN  /\ controller' = res.controller
        /\ robot' = RobotAfter(robot, res)
        /\ op' = [name |-> "execute", cmd |-> cmd, nans |-> nans, outcome |-> outcome,
                  limits |-> res.limits, called |-> res.called, raised |-> res.raised]
        /\ nsteps' = nsteps + 1
        /\ UNCHANGED <<now, beat_tracker, freq_analyzer, analyzer, mapper, packaged, track, app>>

\* One iteration of the vibe loop body on the given features:
\* command = mapper.process(features); controller.execute(command); sleep.
Tick(features, rnd, outcome) ==
    LET out == MapperProcess(mapper, features, rnd)
        res == Execute(controller, out.cmd, {}, outcome, now)
    IN  /\ mapper' = out.mapper
        /\ controller' = res.controller
        /\ robot' = RobotAfter(robot, res)
        /\ now' = now + TickTicks
        /\ op' = [name |-> "tick", features |-> features, rnd |-> rnd, cmd |-> out.cmd,
                  outcome |-> outcome, limits |-> res.limits, called |-> res.called,
                  raised |-> res.raised]
        /\ app' = [app EXCEPT !.latest_features = features,
                              !.status_message = LoopStatus(features)]
        /\ nsteps' = nsteps + 1
        /\ UNCHANGED <<beat_tracker, freq_analyzer, analyzer, packaged, track>>

\* mapper.update_preset(preset)
MapperUpdatePreset(preset) ==
    /\ mapper' = UpdatePreset(mapper, preset)
    /\ op' = [name |-> "update_preset", preset |-> preset.name]
    /\ nsteps' = nsteps + 1
    /\ UNCHANGED <<now, beat_tracker, freq_analyzer, analyzer, controller, robot, packaged,
                   track, app>>

\* mapper.update_intensity(intensity)
MapperUpdateIntensity(intensity) ==
    /\ mapper' = UpdateIntensity(mapper, intensity)
    /\ op' = [name |-> "update_intensity", value |-> intensity]
    /\ nsteps' = nsteps + 1
    /\ UNCHANGED <<now, beat_tracker, freq_analyzer, analyzer, controller, robot, packaged,
                   track, app>>

\* mapper.update_sensitivity(sensitivity)
MapperUpdateSensitivity(sensitivity) ==
    /\ mapper' = UpdateSensitivity(mapper, sensitivity)
    /\ op' = [name |-> "update_sensitivity", value |-> sensitivity]
    /\ nsteps' = nsteps + 1
    /\ UNCHANGED <<now, beat_tracker, freq_analyzer, analyzer, controller, robot, packaged,
                   track, app>>

\* mapper = MovementMapper(preset, intensity, sensitivity)
MapperConstruct(preset, intensity, sensitivity) ==
    /\ mapper' = MapperInit(preset, intensity, sensitivity)
    /\ op' = [name |-> "construct_mapper", intensity |-> intensity,
              sensitivity |-> sensitivity]
    /\ nsteps' = nsteps + 1
    /\ UNCHANGED <<now, beat_tracker, freq_analyzer, analyzer, controller, robot, packaged,
                   track, app>>

\* the vibe loop reading the analyzer: features = self.analyzer.get_latest()
VibeTick(rnd, outcome) == Tick(analyzer.latest_features, rnd, outcome)

NoOp == [name |-> "init"]

\* GENRE_PRESETS.get(genre, GENRE_PRESETS["electronic"])
PresetOf(genre) ==
    IF genre \in DOMAIN GENRE_PRESETS THEN GENRE_PRESETS[genre] ELSE GENRE_PRESETS.electronic

\* a goto_target call of an animation: arguments it does not pass keep the
\* previous target
AnimationCall(r, z, roll, duration) ==
    [calls |-> r.calls + 1,
     last  |-> [r.last EXCEPT !.head_z = F(z), !.head_roll = F(roll),
                              !.duration = duration, !.method = "animation"]]

\* wake_up_animation(robot): five goto_target calls, the last one to neutral
\* with the antennas at 0.2
WakeUp(r) ==
    [calls |-> r.calls + 5,
     last  |-> [r.last EXCEPT !.head_z = F(0), !.head_roll = F(0),
                              !.antennas = <<F(200), F(200)>>,
                              !.duration = 300, !.method = "animation"]]

\* wind_down_animation(robot), first call: the satisfied nod
WindDownNod(r) == AnimationCall(r, -3000, 0, 500)

\* wind_down_animation(robot), second call: the slow return to rest
WindDownRest(r) ==
    [calls |-> r.calls + 1,
     last  |-> [r.last EXCEPT !.head_z = F(0), !.head_roll = F(0),
                              !.antennas = <<F(0), F(0)>>, !.body_yaw = F(0),
                              !.duration = 1000, !.method = "animation"]]

\* the animations find create_head_pose
CanAnimate == app.has_controller /\ controller.create_head_pose

\* thread t of the vibe loop has finished, or was never started
ThreadDone(t) == app[t].pc \in {"none", "ended", "crashed"}

\* the vibe loop thread has finished, or was never started
LoopDone == ThreadDone("loop")

\* AppState.start_vibing(genre, intensity, sensitivity, device_idx), called
\* while no other UI handler runs.  device_ok is "the audio device can be
\* opened".  Nothing waits for the thread of an earlier start_vibing: if it
\* is still alive it lives on as the orphan (at most two threads are
\* followed).
StartVibing(genre, intensity, sensitivity, device, device_ok) ==
    /\ app.stopper = "idle"
    /\ app.is_vibing \/ LoopDone \/ ThreadDone("orphan")
    /\ nsteps' = nsteps + 1
    /\ UNCHANGED <<controller, packaged, track>>
    /\ IF app.is_vibing
       THEN /\ op' = [name |-> "start_vibing", device_ok |-> device_ok, raised |-> FALSE,
                      returned |-> "Already vibing!"]
            /\ UNCHANGED <<now, beat_tracker, freq_analyzer, analyzer, mapper, robot, app>>
       ELSE LET preset == PresetOf(genre)
                st     == StartAnalyzer(AnalyzerInit, device, device_ok)
                app1   == [app EXCEPT !.config = [genre |-> genre, intensity |-> intensity,
                                                  sensitivity |-> sensitivity],
                                      !.mapper = @ + 1,
                                      !.mapper_set = TRUE,
                                      !.analyzer = @ + 1,
                                      !.analyzer_set = TRUE,
                                      !.audio = NoAudio,
                                      !.stream_calls = @ \o st.calls]
            IN  /\ mapper' = MapperInit(preset, intensity, sensitivity)
                /\ beat_tracker' = BeatTrackerInit
                /\ freq_analyzer' = FreqAnalyzerInit
                /\ analyzer' = st.analyzer
                /\ now' = 0
                /\ IF st.raised
                   THEN /\ app' = app1
                        /\ robot' = robot
                        /\ op' = [name |-> "start_vibing", device_ok |-> device_ok,
                                  raised |-> TRUE, returned |-> "none"]
                   ELSE /\ app' = [app1 EXCEPT !.is_vibing = TRUE,
                                               !.status_message = Status("Vibing to " \o preset.name, 0),
                                               !.vibe_thread = @ + 1,
                                               !.orphan = IF LoopDone THEN @ ELSE app.loop,
                                               !.loop = [NoLoop EXCEPT !.pc = "top"]]
                        /\ robot' = IF CanAnimate THEN WakeUp(robot) ELSE robot
                        /\ op' = [name |-> "start_vibing", device_ok |-> device_ok,
                                  raised |-> FALSE, returned |-> "Vibing to " \o preset.name]

\* AppState.stop_vibing(), first part: the is_vibing test and is_vibing = False
StopBegin ==
    /\ app.stopper = "idle"
    /\ IF app.is_vibing
       THEN app' = [app EXCEPT !.is_vibing = FALSE, !.stopper = "flagged"]
       ELSE app' = app
    /\ op' = [name |-> "stop_vibing", returned |-> IF app.is_vibing THEN "none" ELSE "Not vibing"]
    /\ nsteps' = nsteps + 1
    /\ UNCHANGED <<now, beat_tracker, freq_analyzer, analyzer, mapper, controller, robot,
                   packaged, track>>

\* stop_vibing, wind_down_animation's first goto_target
StopWindDown ==
    /\ app.stopper = "flagged"
    /\ CanAnimate
    /\ robot' = WindDownNod(robot)
    /\ app' = [app EXCEPT !.stopper = "nodded"]
    /\ op' = [name |-> "wind_down", loop_pc |-> app.loop.pc]
    /\ nsteps' = nsteps + 1
    /\ UNCHANGED <<now, beat_tracker, freq_analyzer, analyzer, mapper, controller, packaged,
                   track>>

\* stop_vibing, wind_down_animation's second goto_target after its sleep
StopWindDownRest ==
    /\ app.stopper = "nodded"
    /\ robot' = WindDownRest(robot)
    /\ app' = [app EXCEPT !.stopper = "rested"]
    /\ op' = [name |-> "wind_down_rest", loop_pc |-> app.loop.pc]
    /\ nsteps' = nsteps + 1
    /\ UNCHANGED <<now, beat_tracker, freq_analyzer, analyzer, mapper, controller, packaged,
                   track>>

\* stop_vibing, last part: analyzer.stop(), analyzer = None, the status message
StopAudio ==
    /\ \/ app.stopper = "rested"
       \/ app.stopper = "flagged" /\ ~CanAnimate
    /\ LET st == StopAnalyzer(analyzer)
       IN  /\ analyzer' = IF app.analyzer_set THEN st.analyzer ELSE analyzer
           /\ app' = [app EXCEPT !.stopper = "idle",
                                 !.analyzer_set = FALSE,
                                 !.stream_calls = IF app.analyzer_set THEN @ \o st.calls ELSE @,
                                 !.status_message = Status("Stopped vibing", 0)]
    /\ op' = [name |-> "stop_audio"]
    /\ nsteps' = nsteps + 1
    /\ UNCHANGED <<now, beat_tracker, freq_analyzer, mapper, controller, robot, packaged, track>>

\* AppState.change_genre(genre)
ChangeGenre(genre) ==
    /\ mapper' = IF app.mapper_set THEN UpdatePreset(mapper, PresetOf(genre)) ELSE mapper
    /\ app' = [app EXCEPT !.config.genre = genre,
                          !.status_message = Status("Switched to " \o PresetOf(genre).name, 0)]
    /\ op' = [name |-> "change_genre", value |-> genre]
    /\ nsteps' = nsteps + 1
    /\ UNCHANGED <<now, beat_tracker, freq_analyzer, analyzer, controller, robot, packaged,
                   track>>

\* AppState.update_intensity(intensity)
AppUpdateIntensity(intensity) ==
    /\ mapper' = IF app.mapper_set THEN UpdateIntensity(mapper, intensity) ELSE mapper
    /\ app' = [app EXCEPT !.config.intensity = intensity]
    /\ op' = [name |-> "app_update_intensity", value |-> intensity]
    /\ nsteps' = nsteps + 1
    /\ UNCHANGED <<now, beat_tracker, freq_analyzer, analyzer, controller, robot, packaged,
                   track>>

\* AppState.update_sensitivity(sensitivity)
AppUpdateSensitivity(sensitivity) ==
    /\ mapper' = IF app.mapper_set THEN UpdateSensitivity(mapper, sensitivity) ELSE mapper
    /\ app' = [app EXCEPT !.config.sensitivity = sensitivity]
    /\ op' = [name |-> "app_update_sensitivity", value |-> sensitivity]
    /\ nsteps' = nsteps + 1
    /\ UNCHANGED <<now, beat_tracker, freq_analyzer, analyzer, controller, robot, packaged,
                   track>>

\* analyzer.start() called directly; device_ok is "the device can be opened"
AnalyzerStart(device, device_ok) ==
    LET st == StartAnalyzer(analyzer, device, device_ok)
    IN  /\ analyzer' = st.analyzer
        /\ now' = IF analyzer.is_running THEN now ELSE 0
        /\ app' = [app EXCEPT !.stream_calls = @ \o st.calls]
        /\ op' = [name |-> "analyzer_start", device_ok |-> device_ok, raised |-> st.raised]
        /\ nsteps' = nsteps + 1
        /\ UNCHANGED <<beat_tracker, freq_analyzer, mapper, controller, robot, packaged, track>>

\* analyzer.stop() called directly
AnalyzerStop ==
    LET st == StopAnalyzer(analyzer)
    IN  /\ analyzer' = st.analyzer
        /\ app' = [app EXCEPT !.stream_calls = @ \o st.calls]
        /\ op' = [name |-> "analyzer_stop", calls |-> st.calls]
        /\ nsteps' = nsteps + 1
        /\ UNCHANGED <<now, beat_tracker, freq_analyzer, mapper, controller, robot, packaged,
                       track>>

\* the vibe loop, step by step, run by thread t: "loop" is the thread of the
\* latest start_vibing (self.vibe_thread), "orphan" the thread of an earlier
\* start_vibing that has not exited.  "while self.is_vibing" and the None tests:
LoopTop(t) ==
    /\ app[t].pc = "top"
    /\ IF ~app.is_vibing
       THEN app' = [app EXCEPT ![t].pc = "ended"] /\ now' = now
       ELSE IF ~app.analyzer_set \/ ~app.mapper_set
       THEN app' = app /\ now' = now + SampleRate \div 100
       ELSE app' = [app EXCEPT ![t].pc = "checked"] /\ now' = now
    /\ op' = [name |-> "loop_top", thread |-> t]
    /\ nsteps' = nsteps + 1
    /\ UNCHANGED <<beat_tracker, freq_analyzer, analyzer, mapper, controller, robot, packaged,
                   track>>

\* features = self.analyzer.get_latest(); self.latest_features = features.
\* If stop_vibing has set self.analyzer to None since the test, the call
\* raises and the thread dies.
LoopGet(t) ==
    /\ app[t].pc = "checked"
    /\ IF ~app.analyzer_set
       THEN /\ app' = [app EXCEPT ![t].pc = "crashed"]
            /\ op' = [name |-> "loop_crashed", thread |-> t]
       ELSE LET features == GetLatest(analyzer)
            IN  /\ app' = [app EXCEPT ![t].pc = "got",
                                      ![t].features = features,
                                      ![t].session = app.analyzer,
                                      !.latest_features = features]
                /\ op' = [name |-> "get_latest", thread |-> t, features |-> features]
    /\ nsteps' = nsteps + 1
    /\ UNCHANGED <<now, beat_tracker, freq_analyzer, analyzer, mapper, controller, robot,
                   packaged, track>>

\* command = self.mapper.process(features)
LoopProcess(t, rnd) ==
    /\ app[t].pc = "got"
    /\ LET out == MapperProcess(mapper, app[t].features, rnd)
       IN  /\ mapper' = out.mapper
           /\ app' = [app EXCEPT ![t].pc = "mapped", ![t].cmd = out.cmd]
    /\ op' = [name |-> "loop_process", thread |-> t, features |-> app[t].features]
    /\ nsteps' = nsteps + 1
    /\ UNCHANGED <<now, beat_tracker, freq_analyzer, analyzer, controller, robot, packaged,
                   track>>

\* self.controller.execute(command) up to the goto_target call, which the
\* actuator has received and is carrying out; without a controller the loop
\* goes straight on
LoopExecuteBegin(t) ==
    /\ app[t].pc = "mapped"
    /\ IF app.has_controller
       THEN LET res == Execute(controller, app[t].cmd, {}, "ok", now)
            IN  /\ robot' = RobotAfter(robot, res)
                /\ app' = [app EXCEPT ![t].pc = IF res.called THEN "executing"
                                                  ELSE "executed"]
       ELSE robot' = robot /\ app' = [app EXCEPT ![t].pc = "executed"]
    /\ op' = [name |-> "loop_execute_begin", thread |-> t, is_vibing |-> app.is_vibing,
              stopper |-> app.stopper]
    /\ nsteps' = nsteps + 1
    /\ UNCHANGED <<now, beat_tracker, freq_analyzer, analyzer, mapper, controller, packaged,
                   track>>

\* goto_target returns and execute stamps last_command_time
LoopExecuteEnd(t) ==
    /\ app[t].pc = "executing"
    /\ controller' = Execute(controller, app[t].cmd, {}, "ok", now).controller
    /\ app' = [app EXCEPT ![t].pc = "executed"]
    /\ op' = [name |-> "loop_execute_end", thread |-> t]
    /\ nsteps' = nsteps + 1
    /\ UNCHANGED <<now, beat_tracker, freq_analyzer, analyzer, mapper, robot, packaged, track>>

\* the status message and time.sleep(0.033)
LoopSleep(t) ==
    /\ app[t].pc = "executed"
    /\ app' = [app EXCEPT ![t].pc = "top",
                          !.status_message = LoopStatus(app[t].features)]
    /\ now' = now + TickTicks
    /\ op' = [name |-> "loop_sleep", thread |-> t]
    /\ nsteps' = nsteps + 1
    /\ UNCHANGED <<beat_tracker, freq_analyzer, analyzer, mapper, controller, robot, packaged,
                   track>>

\* the audio callback, step by step.  First everything up to the construction
\* of the AudioFeatures object (lines 228-269):
CallbackCompute(chunk, dt) ==
    LET current_time == now + dt
        frames   == NextFramesSilent(analyzer.frames_silent, chunk.rms)
        res      == BeatTrackerProcess(beat_tracker, chunk.rms, current_time)
        fa       == FreqAnalyzerProcess(freq_analyzer, chunk)
        features == [ bass           |-> fa.bass_smooth,
                      mid            |-> fa.mid_smooth,
                      treble         |-> fa.treble_smooth,
                      rms            |-> DisplayRms(chunk.rms),
                      beat_detected  |-> res.beat_detected,
                      onset_strength |-> res.onset_strength,
                      bpm            |-> res.tracker.estimated_bpm,
                      beat_phase     |-> GetBeatPhase(res.tracker, current_time),
                      is_silent      |-> Debounced(chunk.rms, frames),
                      timestamp      |-> current_time ]
    IN  /\ analyzer.stream = "open"
        /\ app.audio.pc = "idle"
        /\ now' = current_time
        /\ beat_tracker' = res.tracker
        /\ freq_analyzer' = fa
        /\ analyzer' = [analyzer EXCEPT !.frames_silent = frames]
        /\ app' = [app EXCEPT !.audio.pc = "computed", !.audio.pending = features]
        /\ op' = [name |-> "callback_compute", rms |-> chunk.rms, time |-> current_time]
        /\ nsteps' = nsteps + 1
        /\ UNCHANGED <<mapper, controller, robot, packaged, track>>

\* then self.latest_features = features (line 271), one reference assignment
CallbackPublish ==
    /\ app.audio.pc = "computed"
    /\ analyzer' = [analyzer EXCEPT !.latest_features = app.audio.pending]
    /\ app' = [app EXCEPT !.audio.pc = "published", !.audio.published = app.audio.pending]
    /\ op' = [name |-> "callback_publish"]
    /\ nsteps' = nsteps + 1
    /\ UNCHANGED <<now, beat_tracker, freq_analyzer, mapper, controller, robot, packaged,
                   track>>

\* then the put on the queue (lines 274-277) and the return; the application
\* constructs its analyzer without a user callback
CallbackReturn ==
    /\ app.audio.pc = "published"
    /\ analyzer' = [analyzer EXCEPT !.feature_queue = PutNowait(@, app.audio.pending)]
    /\ app' = [app EXCEPT !.audio.pc = "idle"]
    /\ op' = [name |-> "callback_return"]
    /\ nsteps' = nsteps + 1
    /\ UNCHANGED <<now, beat_tracker, freq_analyzer, mapper, controller, robot, packaged,
                   track>>

\* the open stream delivers a chunk to the callback
StreamDeliver(chunk) ==
    /\ analyzer.stream = "open"
    /\ AudioCallback(chunk, ChunkSize)
    /\ UNCHANGED track

\* the open stream delivers a chunk to the callback dt ticks after the last
\* event (a stream opened with a larger chunk_size, or a late callback)
StreamDeliverAfter(chunk, dt) ==
    /\ analyzer.stream = "open"
    /\ AudioCallback(chunk, dt)
    /\ UNCHANGED track

----------------------------------------------------------------------------
(* Initial state and specifications                                        *)

Chunk(rms, bass, mid, treble) == [rms |-> rms, bass |-> bass, mid |-> mid, treble |-> treble]

\* a chunk of digital silence, a faint one and a bass-heavy one of the given rms
ZeroChunk == Chunk(0, 0, 0, 0)

LoudChunk(rms) == Chunk(rms, 800, 300, 100)

\* no click track: the chunks are chosen one by one
NoTrack ==
    [ offset |-> 0, background |-> 0, click |-> 0, chunk |-> ChunkSize, spurious |-> 0,
      converged |-> [n |-> 120, d |-> 1] ]

\* a chunk delivered by the audio device, from a source without a track
Deliver(chunk, dt) == AudioCallback(chunk, dt) /\ UNCHANGED track

Fresh ==
    /\ now = 0
    /\ beat_tracker = BeatTrackerInit
    /\ freq_analyzer = FreqAnalyzerInit
    /\ analyzer = AnalyzerInit
    /\ mapper = MapperInit(GENRE_PRESETS.electronic, 700, 600)
    /\ controller = ControllerInit(TRUE, TRUE)
    /\ robot = RobotInit
    /\ packaged = PackagedInit(600)
    /\ app = AppInit(TRUE)
    /\ op = NoOp
    /\ nsteps = 0

Init == Fresh /\ track = NoTrack

\* --- the beat tracker fed arbitrary chunks at arbitrary callback times ---

MaxChunks == 6

\* rms values: digital silence, above the silence threshold but under the
\* beat floor, and loud
TrackerRms == {0, 3, 10}

\* callback spacings: one chunk (46 ms) and eleven chunks (0.51 s)
TrackerDts == {ChunkSize, 11 * ChunkSize}

TrackerChunk(rms) == IF rms = 0 THEN ZeroChunk ELSE LoudChunk(rms)

TrackerNext ==
    \E rms \in TrackerRms, dt \in TrackerDts :
        /\ nsteps < MaxChunks
        /\ Deliver(TrackerChunk(rms), dt)

SpecTracker == Init /\ [][TrackerNext]_vars

\* --- the tempo estimate: quiet or loud chunks 0.51 s or 1.02 s apart ---

MaxTempoChunks == 7

TempoRms == {0, 10}

TempoDts == {11 * ChunkSize, 22 * ChunkSize}

TempoNext ==
    \E rms \in TempoRms, dt \in TempoDts :
        /\ nsteps < MaxTempoChunks
        /\ Deliver(TrackerChunk(rms), dt)

SpecTempo == Init /\ [][TempoNext]_vars

\* --- the tracker called with a clock that may stand still between calls ---

MaxMonotoneChunks == 7

\* callback spacings: none at all (the clock has not moved) and 0.51 s
MonotoneDts == {0, 11 * ChunkSize}

MonotoneNext ==
    \E rms \in TempoRms, dt \in MonotoneDts :
        /\ nsteps < MaxMonotoneChunks
        /\ Deliver(TrackerChunk(rms), dt)

SpecMonotone == Init /\ [][MonotoneNext]_vars

\* --- silence: a stream of chunks one chunk apart.  The stream opens with any
\* number of all-zero chunks and goes on with faint or loud ones. ---

MaxSilenceChunks == 13

\* rms values: non-zero but under the silence threshold, and loud
SilenceRms == {1, 10}

SilenceChunk(rms) == IF rms = 10 THEN LoudChunk(rms) ELSE Chunk(rms, 0, 0, 0)

\* every chunk delivered so far was all-zero
OnlyZerosSoFar ==
    /\ analyzer.frames_silent = nsteps
    /\ \A i \in DOMAIN beat_tracker.energy_history : beat_tracker.energy_history[i] = 0

SilenceNext ==
    /\ nsteps < MaxSilenceChunks
    /\ \/ \E rms \in SilenceRms : Deliver(SilenceChunk(rms), ChunkSize)
       \/ OnlyZerosSoFar /\ Deliver(ZeroChunk, ChunkSize)

SpecSilence == Init /\ [][SilenceNext]_vars

\* --- the packaged app's analyzer fed silent, faint or loud chunks ---

MaxPackagedSteps == 5

PackagedRms == {0, 1, 10}

\* the sensitivity slider's settings tried, in thousandths
PackagedSensitivities == {100, 600}

PackagedNext ==
    /\ nsteps < MaxPackagedSteps
    /\ \/ \E rms \in PackagedRms, dt \in TrackerDts :
             PackagedAudioCallback(SilenceChunk(rms), dt)
       \/ \E sens \in PackagedSensitivities : PackagedUpdateSensitivity(sens)

SpecPackaged == Init /\ [][PackagedNext]_vars

\* --- the mapper and the controller driven tick by tick, and execute called
\* directly with arbitrary commands ---

MaxTicks == 3

\* a preset built to overdrive the mapper: large amplitudes, no smoothing,
\* high randomness
ExtremePreset ==
    Preset("extreme", 500000, 500000, "dramatic", 100000, "headbang", "swaying", 5000, 0)

DancePresets == {ExtremePreset, GENRE_PRESETS.jazz}

\* the features of one tick: silent or not, on a beat or not, at full level
DanceFeatures ==
    { [DefaultFeatures EXCEPT !.is_silent = silent, !.beat_detected = beat,
                              !.onset_strength = IF beat THEN OnsetCap ELSE 0,
                              !.bass = level, !.mid = level, !.treble = level,
                              !.rms = level \div 2, !.beat_phase = 125] :
        silent \in BOOLEAN, beat \in BOOLEAN, level \in {1000} }

\* the random draws of one tick
DanceDraws ==
    { [coin |-> 1, side |-> 1, z |-> <<0, 0, 0, 0, 0, 0>>],
      [coin |-> -1, side |-> 0, z |-> <<3, -3, 3, -3, 3, -3>>] }

\* a value far outside every safety range, in thousandths
Huge == 2000000

\* commands handed to execute directly
DirectCommands ==
    { Command(v, v, v, v, v, -v, 100, 0) : v \in {-Huge, 500, Huge} }

\* the sets of fields that hold NaN
DirectNans ==
    { {}, {"head_z", "head_roll", "head_pitch", "body_yaw", "antenna_left", "antenna_right"} }

Outcomes == {"ok", "pose_raises", "goto_raises"}

DanceNext ==
    /\ nsteps < MaxTicks
    /\ \/ \E f \in DanceFeatures, rnd \in DanceDraws, outcome \in {"ok", "goto_raises"} :
              Tick(f, rnd, outcome)
       \/ \E cmd \in DirectCommands, nans \in DirectNans, outcome \in Outcomes :
              ControllerExecute(cmd, nans, outcome)
       \/ \E preset \in DancePresets : MapperUpdatePreset(preset)

SpecDance == Init /\ [][DanceNext]_vars

\* --- the mapper alone: constructed, reconfigured and ticked directly ---

MaxMapperSteps == 3

\* a preset without randomness, so that a command shows what process computed
CrispPreset ==
    Preset("crisp", 10000, 20000, "pulse", 500, "headbang", "nodding", 0, 500)

MapperPresets == {CrispPreset, GENRE_PRESETS.jazz, GENRE_PRESETS.pop}

\* features of a tick: two silent ones that differ in everything else, and
\* three with sound (no beat, a strong beat, a weak beat)
MapperFeatures ==
    { [DefaultFeatures EXCEPT !.is_silent = TRUE],
      [DefaultFeatures EXCEPT !.is_silent = TRUE, !.bass = 900, !.mid = 400, !.treble = 100,
                              !.beat_phase = 700, !.timestamp = 5 * ChunkSize],
      [DefaultFeatures EXCEPT !.is_silent = FALSE, !.bass = 900, !.mid = 400, !.treble = 100,
                              !.rms = 500, !.beat_phase = 125],
      [DefaultFeatures EXCEPT !.is_silent = FALSE, !.bass = 1000, !.mid = 1000, !.treble = 1000,
                              !.rms = 1000, !.beat_phase = 0, !.beat_detected = TRUE,
                              !.onset_strength = OnsetCap, !.timestamp = 9 * ChunkSize],
      [DefaultFeatures EXCEPT !.is_silent = FALSE, !.bass = 300, !.mid = 300, !.treble = 300,
                              !.rms = 100, !.beat_phase = 0, !.beat_detected = TRUE,
                              !.onset_strength = 500, !.timestamp = 3 * ChunkSize] }

\* intensity and sensitivity arguments, in and out of [0, 1]
MapperLevels == {-200, 300, 1500}

MapperNext ==
    /\ nsteps < MaxMapperSteps
    /\ \/ \E f \in MapperFeatures, rnd \in DanceDraws : Tick(f, rnd, "ok")
       \/ \E preset \in MapperPresets : MapperUpdatePreset(preset)
       \/ \E v \in MapperLevels : MapperUpdateIntensity(v)
       \/ \E v \in MapperLevels : MapperUpdateSensitivity(v)
       \/ \E i \in {700, 1500}, v \in {600, -200} :
              MapperConstruct(GENRE_PRESETS.electronic, i, v)

SpecMapper == Init /\ [][MapperNext]_vars

\* --- the mapper left idle for more than a full period of its idle animation,
\* after a short free prefix of ticks and preset changes ---

MaxIdleTicks == 330

\* the length of the free prefix
IdlePrefix == 2

IdlePresets == {ExtremePreset, GENRE_PRESETS.jazz, GENRE_PRESETS.rock, GENRE_PRESETS.pop}

\* the silent features of the long run: they alternate between two snapshots
\* that differ in everything but is_silent
IdleFeatures(n) ==
    IF n % 2 = 0 THEN [DefaultFeatures EXCEPT !.is_silent = TRUE, !.timestamp = n * TickTicks]
    ELSE [DefaultFeatures EXCEPT !.is_silent = TRUE, !.bass = 900, !.mid = 400,
                                 !.treble = 100, !.beat_phase = 700]

\* the draws of the long run: never the neutral ones
IdleDraw == [coin |-> -1, side |-> 0, z |-> <<3, -3, 3, -3, 3, -3>>]

IdleNext ==
    \/ /\ nsteps < IdlePrefix
       /\ \/ \E f \in MapperFeatures, rnd \in DanceDraws : Tick(f, rnd, "ok")
          \/ \E preset \in IdlePresets : MapperUpdatePreset(preset)
    \/ /\ nsteps >= IdlePrefix
       /\ nsteps < MaxIdleTicks
       /\ Tick(IdleFeatures(nsteps), IdleDraw, "ok")

SpecIdle == Init /\ [][IdleNext]_vars

\* --- audio callbacks of an analyzer with a user callback, some of which fail ---

MaxFaultSteps == 3

Faults == {"malformed", "tracker", "freq", "callback"}

FaultChunks == {ZeroChunk, LoudChunk(10)}

FaultNext ==
    /\ nsteps < MaxFaultSteps
    /\ UNCHANGED track
    /\ \/ \E callback \in BOOLEAN : AnalyzerConstruct(callback)
       \/ \E chunk \in FaultChunks : AudioCallback(chunk, ChunkSize)
       \/ \E chunk \in FaultChunks, fault \in Faults :
              AudioCallbackFails(chunk, ChunkSize, fault)

SpecFaults == Init /\ [][FaultNext]_vars

\* --- a session driven from the UI: start, stop, reconfigure, while the stream
\* delivers chunks and the vibe loop runs whole iterations ---

MaxSessionSteps == 5

SessionGenres == {"rock", "polka"}

SessionLevels == {300, 1500}

SessionChunks == {ZeroChunk, LoudChunk(10)}

\* one whole iteration of the vibe loop, taken while the session is up
LoopIteration ==
    /\ app.is_vibing
    /\ app.loop.pc = "top"
    /\ app.analyzer_set
    /\ app.mapper_set
    /\ VibeTick(IdleDraw, "ok")

SessionNext ==
    /\ nsteps < MaxSessionSteps
    /\ \/ \E genre \in SessionGenres, device_ok \in BOOLEAN :
              StartVibing(genre, 700, 600, "usb", device_ok)
       \/ StopBegin
       \/ StopWindDown
       \/ StopWindDownRest
       \/ StopAudio
       \/ \E genre \in SessionGenres : ChangeGenre(genre)
       \/ \E v \in SessionLevels : AppUpdateIntensity(v)
       \/ \E v \in SessionLevels : AppUpdateSensitivity(v)
       \/ \E chunk \in SessionChunks : StreamDeliver(chunk)
       \/ \E device_ok \in BOOLEAN : AnalyzerStart("usb", device_ok)
       \/ AnalyzerStop
       \/ LoopIteration

SpecSession == Init /\ [][SessionNext]_vars

\* --- frequency analyzers for several sample rates and FFT sizes ---

MaxBandSteps == 3

BandRates == {8000, 16000, 22050, 32000, 44100, 48000}

BandFftSizes == {512, 1024, 2048}

BandNext ==
    /\ nsteps < MaxBandSteps
    /\ \/ \E sample_rate \in BandRates, fft_size \in BandFftSizes :
            FreqAnalyzerConstruct(sample_rate, fft_size)
       \/ \E chunk \in FaultChunks : FreqAnalyzerStep(chunk)

SpecBands == Init /\ [][BandNext]_vars

\* --- the feature queue filled by the callback and polled with get_features ---

MaxQueueSteps == 13

QueueNext ==
    /\ nsteps < MaxQueueSteps
    /\ UNCHANGED track
    /\ \/ AudioCallback(LoudChunk(10), ChunkSize)
       \/ AnalyzerGetFeatures

SpecQueue == Init /\ [][QueueNext]_vars

\* --- stop_vibing against the vibe loop, both step by step ---

MaxRaceSteps == 12

RaceNext ==
    /\ nsteps < MaxRaceSteps
    /\ \/ StartVibing("rock", 700, 600, "usb", TRUE)
       \/ LoopTop("loop")
       \/ LoopGet("loop")
       \/ LoopProcess("loop", IdleDraw)
       \/ LoopExecuteBegin("loop")
       \/ LoopExecuteEnd("loop")
       \/ LoopSleep("loop")
       \/ StopBegin
       \/ StopWindDown
       \/ StopWindDownRest
       \/ StopAudio

SpecRace == Init /\ [][RaceNext]_vars

\* --- start_vibing and stop_vibing called again and again, against the loop
\* threads they leave behind ---

MaxRestartSteps == 12

Threads == {"loop", "orphan"}

RestartNext ==
    /\ nsteps < MaxRestartSteps
    /\ \/ StartVibing("rock", 700, 600, "usb", TRUE)
       \/ StopBegin
       \/ StopWindDown
       \/ StopWindDownRest
       \/ StopAudio
       \/ \E t \in Threads : LoopTop(t)
       \/ \E t \in Threads : LoopGet(t)
       \/ \E t \in Threads : LoopProcess(t, IdleDraw)
       \/ \E t \in Threads : LoopExecuteBegin(t)
       \/ \E t \in Threads : LoopExecuteEnd(t)
       \/ \E t \in Threads : LoopSleep(t)

SpecRestart == Init /\ [][RestartNext]_vars

\* --- the audio callback against the vibe loop's reads, both step by step ---

MaxLatestSteps == 14

LatestNext ==
    /\ nsteps < MaxLatestSteps
    /\ \/ StartVibing("rock", 700, 600, "usb", TRUE)
       \/ \E chunk \in SessionChunks : CallbackCompute(chunk, ChunkSize)
       \/ CallbackPublish
       \/ CallbackReturn
       \/ LoopTop("loop")
       \/ LoopGet("loop")
       \/ LoopProcess("loop", IdleDraw)
       \/ LoopExecuteBegin("loop")
       \/ LoopExecuteEnd("loop")
       \/ LoopSleep("loop")

SpecLatest == Init /\ [][LatestNext]_vars

\* --- the vibe loop polling on its timer while the stream delivers chunks ---

MaxPollSteps == 14

\* the stream is opened with a chunk_size of 8192 samples (0.19 s)
PollChunkSize == 4 * ChunkSize

\* the music played: a loud chunk after every silent one, starting loud
PollChunk ==
    IF beat_tracker.energy_history = <<>>
          \/ beat_tracker.energy_history[Len(beat_tracker.energy_history)] = 0
    THEN LoudChunk(10)
    ELSE ZeroChunk

PollNext ==
    /\ nsteps < MaxPollSteps
    /\ \/ StartVibing("rock", 700, 600, "usb", TRUE)
       \/ StreamDeliverAfter(PollChunk, PollChunkSize)
       \/ LoopTop("loop")
       \/ LoopGet("loop")
       \/ LoopProcess("loop", IdleDraw)
       \/ LoopExecuteBegin("loop")
       \/ LoopExecuteEnd("loop")
       \/ LoopSleep("loop")

SpecPoll == Init /\ [][PollNext]_vars

\* --- a click track at exactly 120 BPM, delivered in fixed-size chunks ---
\* Click k sounds at tick offset + k * SampleRate / 2.  Chunk j holds the
\* ticks (j - 1) * chunk .. j * chunk - 1 and is processed with
\* current_time = j * chunk.

\* the number of clicks of the track
MaxClicks == 13

\* where in the first chunks the first click falls
ClickOffsets == {0, 300, 700, 1100, 1400, 1800, 2047, 5000, 9999, 20000}

\* rms between the clicks: digital silence or a noise floor
ClickBackgrounds == {0, 3}

\* rms of a chunk that holds a click
ClickRms == 12

\* the chunk sizes the stream is opened with
ClickChunkSizes == {ChunkSize \div 2, ChunkSize, 2 * ChunkSize}

ClickTracks ==
    { [ offset |-> o, background |-> b, click |-> ClickRms, chunk |-> c, spurious |-> 0,
        converged |-> [n |-> 120, d |-> 1] ] :
        o \in ClickOffsets, b \in ClickBackgrounds, c \in ClickChunkSizes }

\* chunk j holds a click of the track
HoldsClick(t, j) ==
    \E k \in 0 .. (MaxClicks - 1) :
        LET at == t.offset + k * (SampleRate \div 2)
        IN  (j - 1) * t.chunk <= at /\ at < j * t.chunk

\* the track has chunks left to deliver
TrackPlaying(t, j) == (j - 1) * t.chunk < t.offset + MaxClicks * (SampleRate \div 2)

TrackChunk(t, j, extra) ==
    IF HoldsClick(t, j) \/ extra THEN LoudChunk(t.click)
    ELSE IF t.background = 0 THEN ZeroChunk ELSE Chunk(t.background, 10, 10, 10)

\* the next chunk of the click track
FeedClick ==
    /\ AudioCallback(TrackChunk(track, nsteps + 1, FALSE), track.chunk)
    /\ UNCHANGED track

ClickInit == Fresh /\ track \in ClickTracks

ClickNext == TrackPlaying(track, nsteps + 1) /\ FeedClick

SpecClick == ClickInit /\ [][ClickNext]_vars

\* --- the same track with one spurious onset between two clicks, fed once
\* the estimate has converged (8 beats detected) ---

\* the next chunk, a chunk without a click, carries the one spurious onset
FeedSpurious ==
    /\ track.spurious = 0
    /\ Len(beat_tracker.beat_times) >= 8
    /\ ~HoldsClick(track, nsteps + 1)
    /\ AudioCallback(TrackChunk(track, nsteps + 1, TRUE), track.chunk)
    /\ track' = [track EXCEPT !.spurious = nsteps + 1,
                              !.converged = beat_tracker.estimated_bpm]

OutlierNext == TrackPlaying(track, nsteps + 1) /\ (FeedClick \/ FeedSpurious)

SpecOutlier == ClickInit /\ [][OutlierNext]_vars

\* --- a tempo change: regular onsets of one period, then of a shorter one ---
\* Between two onsets the stream delivers one silent chunk, half a period
\* after the onset before it, so that every onset chunk passes the onset and
\* energy conditions.

\* the number of onsets fed, enough for the 50 stored beat times to be
\* replaced twice over by beats of the second period
MaxFollowOnsets == 110

\* the periods in ticks: 1.0 s, 0.6 s, 0.5 s, 0.3 s
FollowTracks ==
    { [slow |-> 44100, fast |-> 22050, nslow |-> 5],
      [slow |-> 26460, fast |-> 22050, nslow |-> 5],
      [slow |-> 22050, fast |-> 13230, nslow |-> 5] }

\* the chunk after nsteps chunks: silent, then the onset, by turns
FeedFollow ==
    LET k      == nsteps + 1
        onset  == (k + 1) \div 2
        period == IF onset <= track.nslow THEN track.slow ELSE track.fast
        chunk  == IF k % 2 = 0 THEN LoudChunk(10) ELSE ZeroChunk
    IN  Deliver(chunk, period \div 2)

FollowInit == Fresh /\ track \in FollowTracks

FollowNext == nsteps < 2 * MaxFollowOnsets /\ FeedFollow

\* the stream keeps delivering: as long as chunks remain, a chunk is processed
FollowProgress == nsteps < 2 * MaxFollowOnsets /\ nsteps' = nsteps + 1

SpecFollow == FollowInit /\ [][FollowNext]_vars /\ WF_nsteps(FollowProgress)

----------------------------------------------------------------------------
(* Claims                                                                  *)

\* the history entries before the one the last process call appended
PriorEnergies(bt) == SubSeq(bt.energy_history, 1, Len(bt.energy_history) - 1)

\* C2: BeatTracker.process reports a beat exactly when at least 3 energy
\* samples are recorded (the current one included) and rms / (mean of the
\* prior entries + epsilon) > 1.3, current_time - last_beat_time >
\* 0.7 * beat_interval and rms > 0.002 all hold; with fewer than 3 samples it
\* returns (False, 0.0) and changes nothing but the energy history.
C2_BeatIff ==
    [][ op'.name = "audio_callback" =>
        LET e     == op'.rms
            prior == PriorEnergies(beat_tracker')
            since == op'.time - beat_tracker.last_beat_time
            bi    == beat_tracker.beat_interval
            n     == Len(beat_tracker'.energy_history)
        IN  /\ op'.beat_detected <=>
                  /\ n >= 3
                  /\ 10 * e * Len(prior) > 13 * Sum(prior)
                  /\ 10 * since * bi.d > 7 * bi.n
                  /\ e > 4
            /\ n < 3 =>
                  /\ ~op'.beat_detected
                  /\ op'.onset_strength = 0
                  /\ beat_tracker' = [beat_tracker EXCEPT !.energy_history = Append(@, e)]
      ]_vars

\* a call that detected a beat after an earlier one
C2_Witness ==
    /\ op.name = "audio_callback"
    /\ op.beat_detected
    /\ Len(beat_tracker.beat_times) >= 2

\* C3: estimated_bpm and beat_interval change only on a process call that
\* detects a beat and leaves at least 4 beat timestamps stored.
C3_TempoFrame ==
    [][ (beat_tracker'.estimated_bpm # beat_tracker.estimated_bpm
            \/ beat_tracker'.beat_interval # beat_tracker.beat_interval)
        => (op'.name = "audio_callback" /\ op'.beat_detected
            /\ Len(beat_tracker'.beat_times) >= 4)
      ]_vars

\* the estimate has moved off its construction value and a later call, which
\* detected no beat, left it alone
C3_Witness ==
    /\ beat_tracker.estimated_bpm # [n |-> 120, d |-> 1]
    /\ Len(beat_tracker.beat_times) >= 4
    /\ op.name = "audio_callback"
    /\ ~op.beat_detected

InBpmRange(bpm) == MinBpm * bpm.d <= bpm.n /\ bpm.n <= MaxBpm * bpm.d

\* C4: in every reachable state the tracker's bpm, and the bpm of every
\* snapshot produced, lies in [60, 200].
C4_BpmRange ==
    /\ InBpmRange(beat_tracker.estimated_bpm)
    /\ InBpmRange(analyzer.latest_features.bpm)
    /\ \A i \in 1 .. Len(analyzer.feature_queue) : InBpmRange(analyzer.feature_queue[i].bpm)

\* beats more than a second apart: 60 / beat_interval is under 60 and is clamped
C4_Witness ==
    /\ beat_tracker.beat_interval.n > SampleRate * beat_tracker.beat_interval.d
    /\ analyzer.latest_features.bpm = [n |-> 60, d |-> 1]
    /\ Len(beat_tracker.beat_times) >= 4

\* the k-th smallest entry of a sequence, without sorting it
KthSmallest(s, k) ==
    CHOOSE x \in {s[i] : i \in DOMAIN s} :
        /\ Cardinality({i \in DOMAIN s : s[i] < x}) < k
        /\ k <= Cardinality({i \in DOMAIN s : s[i] <= x})

\* twice the median of a non-empty sequence
TwiceMedian(s) ==
    LET n == Len(s)
    IN  IF n % 2 = 1 THEN 2 * KthSmallest(s, (n + 1) \div 2)
        ELSE KthSmallest(s, n \div 2) + KthSmallest(s, n \div 2 + 1)

\* C5: on a detected beat that leaves at least 4 timestamps, the new
\* beat_interval is the mean of exactly the inter-beat intervals strictly
\* between 0.5 * median and 2 * median, and the new bpm is 60 / beat_interval
\* clamped to [60, 200].
C5_TempoValue ==
    [][ (op'.name = "audio_callback" /\ op'.beat_detected
            /\ Len(beat_tracker'.beat_times) >= 4) =>
        LET times == beat_tracker'.beat_times
            iv    == [i \in 1 .. (Len(times) - 1) |-> times[i + 1] - times[i]]
            med2  == TwiceMedian(iv)
            valid == SelectSeq(iv, LAMBDA x : med2 < 4 * x /\ x < med2)
            bi    == beat_tracker'.beat_interval
            bpm   == beat_tracker'.estimated_bpm
            raw_n == 60 * SampleRate * bi.d
        IN  /\ valid # <<>>
            /\ bi.n * Len(valid) = bi.d * Sum(valid)
            /\ IF raw_n > 200 * bi.n THEN bpm = [n |-> 200, d |-> 1]
               ELSE IF raw_n < 60 * bi.n THEN bpm = [n |-> 60, d |-> 1]
               ELSE bpm = Rat(raw_n, bi.n)
      ]_vars

\* a beat whose update threw an interval out as an outlier
C5_Witness ==
    /\ op.name = "audio_callback"
    /\ op.beat_detected
    /\ Len(beat_tracker.beat_times) >= 4
    /\ \E i \in 1 .. (Len(beat_tracker.beat_times) - 1) :
          LET x == beat_tracker.beat_times[i + 1] - beat_tracker.beat_times[i]
          IN  beat_tracker.beat_interval.d * x >= 2 * beat_tracker.beat_interval.n

\* the chunk of the last callback and the ten before it were all under the
\* silence threshold (0.001); history is the energy history before the callback
ElevenSilent(rms, history) ==
    /\ rms < 2
    /\ Len(history) >= 10
    /\ \A i \in (Len(history) - 9) .. Len(history) : history[i] < 2

\* C8: a snapshot produced by an audio callback has is_silent = true only if
\* the current chunk and the 10 chunks before it were all under the silence
\* threshold; so after a chunk at or above it, that snapshot and the next 10
\* have is_silent = false.  Stated of both audio callbacks of the repository.
C8_SilentOnlyAfterEleven ==
    [][ /\ (op'.name = "audio_callback" /\ analyzer'.latest_features.is_silent)
              => ElevenSilent(op'.rms, beat_tracker.energy_history)
        /\ (op'.name = "packaged_audio_callback" /\ packaged'.latest_features.is_silent)
              => ElevenSilent(op'.rms, packaged.energy_history)
      ]_vars

\* C8 for the callback of audio_analyzer.py alone, which debounces
C8_CanonicalDebounce ==
    [][ (op'.name = "audio_callback" /\ analyzer'.latest_features.is_silent)
            => ElevenSilent(op'.rms, beat_tracker.energy_history)
      ]_vars

\* C9: a chunk under the silence threshold never registers a beat, a snapshot
\* with is_silent = true has beat_detected = false, and the 11th and every
\* later chunk of an unbroken silent run (an all-zero stream included) is
\* reported with is_silent = true.
C9_SilenceNoBeat ==
    [][ op'.name = "audio_callback" =>
        LET f == analyzer'.latest_features
        IN  /\ op'.rms < 2 => (~op'.beat_detected /\ ~f.beat_detected)
            /\ f.is_silent => ~f.beat_detected
            /\ ElevenSilent(op'.rms, beat_tracker.energy_history) => f.is_silent
      ]_vars

\* the 11th chunk of a silent run that held a faint chunk strong enough for
\* the onset test: the snapshot is silent
C9_Witness ==
    /\ op.name = "audio_callback"
    /\ analyzer.latest_features.is_silent
    /\ nsteps >= 11
    /\ \E i \in DOMAIN beat_tracker.energy_history : beat_tracker.energy_history[i] = 1

\* |bpm - target| <= tolerance, for a rational bpm and integers target, tolerance
BpmWithin(bpm, target, tolerance) ==
    /\ (target - tolerance) * bpm.d <= bpm.n
    /\ bpm.n <= (target + tolerance) * bpm.d

MilliBpm(bpm) == (bpm.n \div bpm.d) * 1000 + ((bpm.n % bpm.d) * 1000) \div bpm.d

\* the two values, each rounded down to a thousandth, differ by less than
\* tolerance: the values themselves then differ by less than tolerance + 0.001
MovedLessThan(a, b, tolerance) == Abs(MilliBpm(a) - MilliBpm(b)) < tolerance * 1000

\* C7: once the estimate has converged on the click track, one spurious onset
\* between two clicks does not move bpm by more than 5 from the converged
\* value, at that beat or at any later beat (checked as: the two values in
\* thousandths differ by at most 4.999).
C7_OutlierBounded ==
    track.spurious > 0 =>
        /\ MovedLessThan(beat_tracker.estimated_bpm, track.converged, 5)
        /\ MovedLessThan(analyzer.latest_features.bpm, track.converged, 5)

\* the spurious onset was detected as a beat, moved the estimate, and two
\* more beats have been detected since
C7_Witness ==
    /\ track.spurious > 0
    /\ \E i \in 1 .. (Len(beat_tracker.beat_times) - 2) :
          beat_tracker.beat_times[i] = track.spurious * track.chunk
    /\ beat_tracker.estimated_bpm # track.converged

\* a float that is a number of magnitude at most bound
FiniteWithin(x, bound) == ~x.nan /\ -bound <= x.v /\ x.v <= bound

\* C1: whatever command execute is given (any field values, NaN included, from
\* any preset, on any tick), the goto_target call it issues carries head z
\* within 15 mm, head roll within 40 deg, body yaw within 60 deg before the
\* conversion to radians (1.047 rad after it) and both antennas within 0.8.
C1_ActuatorInRange ==
    /\ robot.last.method # "none" =>
          /\ FiniteWithin(robot.last.head_z, 15000)
          /\ FiniteWithin(robot.last.head_roll, 40000)
          /\ FiniteWithin(robot.last.body_yaw, 1047)
          /\ FiniteWithin(robot.last.antennas[1], 800)
          /\ FiniteWithin(robot.last.antennas[2], 800)
    /\ (op.name \in {"execute", "tick"} /\ op.called) =>
          /\ FiniteWithin(op.limits.body_yaw, 60000)
          /\ robot.last.head_z = op.limits.head_z
          /\ robot.last.head_roll = op.limits.head_roll
          /\ robot.last.antennas = <<op.limits.antenna_l, op.limits.antenna_r>>

\* a tick under the extreme preset whose command is out of range in head z,
\* body yaw and the antennas, forwarded at the limits
C1_Witness ==
    /\ op.name = "tick"
    /\ mapper.preset.name = "extreme"
    /\ op.called
    /\ op.cmd.head_z < -15000
    /\ op.cmd.body_yaw > 60000
    /\ op.cmd.antenna_left > 800
    /\ robot.last.head_z = F(-15000)
    /\ robot.last.body_yaw = F(1047)
    /\ robot.last.antennas[1] = F(800)

\* C10: process partitions its state by features.is_silent: a silent tick
\* advances idle_phase and leaves the five smoothing accumulators; a non-silent
\* tick leaves idle_phase; after every tick is_idle = features.is_silent.
C10_SilencePartition ==
    [][ op'.name = "tick" =>
          /\ op'.features.is_silent =>
                /\ mapper'.idle_phase > mapper.idle_phase
                /\ mapper'.smooth_head_z = mapper.smooth_head_z
                /\ mapper'.smooth_head_roll = mapper.smooth_head_roll
                /\ mapper'.smooth_body_yaw = mapper.smooth_body_yaw
                /\ mapper'.smooth_antenna_l = mapper.smooth_antenna_l
                /\ mapper'.smooth_antenna_r = mapper.smooth_antenna_r
          /\ ~op'.features.is_silent => mapper'.idle_phase = mapper.idle_phase
          /\ mapper'.is_idle = op'.features.is_silent
      ]_vars

\* a silent tick that follows a non-silent one which moved the accumulators
C10_Witness ==
    /\ op.name = "tick"
    /\ op.features.is_silent
    /\ mapper.is_idle
    /\ mapper.idle_phase > 0
    /\ mapper.smooth_head_z # 0
    /\ mapper.smooth_body_yaw # 0
    /\ mapper.smooth_antenna_l # 0

\* C11: on a non-silent tick the head_pitch of the command, before the random
\* variation is added, is a function of that tick's features, the preset,
\* sensitivity and intensity alone: 0 without a beat (so the returned pitch is
\* 0 when randomness is 0), and intensity * 0.7 * (-20 or -10) * onset_strength
\* * sensitivity on a beat, which is negative for headbang and nod whenever
\* onset_strength, sensitivity and intensity are positive.
C11_PitchMemoryless ==
    [][ (op'.name = "tick" /\ ~op'.features.is_silent) =>
        LET f         == op'.features
            preset    == mapper.preset
            style     == preset.emphasis_style
            strength  == MulM(f.onset_strength, mapper.sensitivity)
            coef      == IF style = "headbang" THEN -20 ELSE IF style = "nod" THEN -10 ELSE 0
            expected  == IF f.beat_detected
                         THEN MulM(MulM(coef * strength, 700), mapper.intensity)
                         ELSE 0
            variation == IF preset.randomness <= 0 THEN 0
                         ELSE op'.rnd.z[3] * preset.randomness * 2
            pitch     == op'.cmd.head_pitch - variation
        IN  /\ pitch = expected
            /\ (~f.beat_detected /\ preset.randomness = 0) => op'.cmd.head_pitch = 0
            /\ ( /\ f.beat_detected
                 /\ style \in {"headbang", "nod"}
                 /\ f.onset_strength > 0
                 /\ mapper.sensitivity > 0
                 /\ mapper.intensity > 0 ) => pitch < 0
      ]_vars

\* a beat tick under a headbang preset without randomness, after an earlier
\* non-silent tick has moved the smoothing accumulators: the pitch is negative
C11_Witness ==
    /\ op.name = "tick"
    /\ op.features.beat_detected
    /\ ~op.features.is_silent
    /\ mapper.preset.name = "crisp"
    /\ Len(mapper.feature_history) >= 2
    /\ ~mapper.feature_history[1].is_silent
    /\ mapper.smooth_head_z # 0
    /\ op.cmd.head_pitch < 0

\* the number of silent ticks in a feature history
RECURSIVE SilentTicks(_)
SilentTicks(history) ==
    IF history = <<>> THEN 0
    ELSE (IF Head(history).is_silent THEN 1 ELSE 0) + SilentTicks(Tail(history))

\* C12: the command of the k-th silent tick is the idle command of the preset
\* at phase 0.02 * k, whatever the feature values, timestamps, random draws and
\* interleaved non-silent ticks were (k counted in the feature history while it
\* holds every tick, and one more than at the previous silent tick always);
\* no smoothing or randomness enters it, and every pose field stays within the
\* amplitude of its idle style for all k.
C12_IdleDeterministic ==
    [][ (op'.name = "tick" /\ op'.features.is_silent) =>
        LET k   == mapper'.idle_phase
            cmd == op'.cmd
        IN  /\ k = mapper.idle_phase + 1
            /\ Len(mapper'.feature_history) < FeatureHistoryCap
                  => k = SilentTicks(mapper'.feature_history)
            /\ cmd = IdleCommand(mapper.preset, k)
            /\ Abs(cmd.head_z) <= 450
            /\ Abs(cmd.head_roll) <= 3000
            /\ Abs(cmd.head_pitch) <= 5000
            /\ Abs(cmd.body_yaw) <= 15000
            /\ Abs(cmd.antenna_left) <= 150
            /\ Abs(cmd.antenna_right) <= 150
      ]_vars

\* more than a period of silent ticks after a non-silent tick that moved the
\* smoothing accumulators, under a preset with randomness: the idle command
\* is away from neutral
C12_Witness ==
    /\ op.name = "tick"
    /\ op.features.is_silent
    /\ mapper.idle_phase >= 320
    /\ mapper.smooth_body_yaw # 0
    /\ mapper.preset.randomness > 0
    /\ op.cmd.body_yaw # 0

\* C13: a failure of create_head_pose or goto_target inside execute does not
\* leave execute: the tick goes on to its status update and sleep, the mapper
\* ends as process left it, the analyzer, tracker and frequency analyzer are
\* untouched, and last_command_time moves only when goto_target succeeded.
C13_FailureContained ==
    [][ op'.name \in {"tick", "execute"} =>
          /\ ~op'.raised
          /\ controller'.last_command_time # controller.last_command_time
                => (op'.outcome = "ok" /\ op'.called)
          /\ op'.outcome # "ok" => controller' = controller
          /\ analyzer' = analyzer
          /\ beat_tracker' = beat_tracker
          /\ freq_analyzer' = freq_analyzer
          /\ op'.name = "execute" => mapper' = mapper
          /\ op'.name = "tick" =>
                /\ mapper' = MapperProcess(mapper, op'.features, op'.rnd).mapper
                /\ app'.status_message = LoopStatus(op'.features)
                /\ now' = now + TickTicks
      ]_vars

\* a tick whose goto_target raised, after an earlier tick that succeeded: the
\* actuator received both calls and the time stamp is the earlier tick's
C13_Witness ==
    /\ op.name = "tick"
    /\ op.outcome = "goto_raises"
    /\ op.called
    /\ robot.calls >= 2
    /\ controller.last_command_time > 0
    /\ controller.last_command_time < now - TickTicks

\* C14: when the processing of a chunk fails inside the audio callback, the
\* callback does not raise, the chunk is skipped, and latest_features still
\* holds the snapshot produced before the failure.
C14_FailedChunkSkipped ==
    [][ op'.name = "audio_callback_failed" =>
          /\ ~op'.raised
          /\ analyzer'.latest_features = analyzer.latest_features
      ]_vars

\* C15: when the audio device cannot be opened, AudioAnalyzer.start raises to
\* its caller after the one attempt on the requested device (no stream, no
\* other device tried), and start_vibing then leaves the session not vibing
\* with no vibe-loop thread started; a start_vibing on a session that is not
\* vibing succeeds whenever the device opens, so the failed start can be retried.
C15_StartFailsFast ==
    [][ /\ (op'.name = "start_vibing" /\ ~app.is_vibing) =>
              IF op'.device_ok
              THEN /\ ~op'.raised
                   /\ app'.is_vibing
                   /\ app'.vibe_thread = app.vibe_thread + 1
                   /\ app'.loop.pc = "top"
                   /\ analyzer'.stream = "open"
              ELSE /\ op'.raised
                   /\ ~app'.is_vibing
                   /\ app'.vibe_thread = app.vibe_thread
                   /\ app'.loop = app.loop
                   /\ app'.stopper = "idle"
                   /\ analyzer'.stream = "none"
                   /\ app'.stream_calls =
                         Append(app.stream_calls, [call |-> "open", device |-> "usb"])
        /\ (op'.name = "analyzer_start" /\ ~analyzer.is_running /\ ~op'.device_ok) =>
              /\ op'.raised
              /\ analyzer'.stream = "none"
              /\ app'.stream_calls =
                    Append(app.stream_calls, [call |-> "open", device |-> "usb"])
      ]_vars

\* a start_vibing that succeeded on the second analyzer, after the first
\* start_vibing failed on its device
C15_Witness ==
    /\ op.name = "start_vibing"
    /\ ~op.raised
    /\ app.is_vibing
    /\ app.analyzer = 2
    /\ app.vibe_thread = 1
    /\ Len(app.stream_calls) = 3

\* C16: AudioAnalyzer.stop on a never-started or already-stopped analyzer
\* changes no state and makes no call on any stream; on a running analyzer it
\* stops the stream, then closes it, then drops the handle, so that a further
\* stop finds nothing to do; it never touches the tracker, the frequency
\* analyzer or latest_features, and the stream delivers a chunk to the callback
\* only while it is open, hence never after stop has returned.
C16_StopIdempotent ==
    [][ /\ op'.name = "analyzer_stop" =>
              /\ (~analyzer.is_running /\ analyzer.stream = "none") =>
                    /\ analyzer' = analyzer
                    /\ op'.calls = <<>>
                    /\ app'.stream_calls = app.stream_calls
              /\ analyzer.stream = "open" =>
                    /\ op'.calls = << [call |-> "stop"], [call |-> "close"] >>
                    /\ app'.stream_calls = app.stream_calls \o op'.calls
              /\ ~analyzer'.is_running
              /\ analyzer'.stream = "none"
              /\ analyzer'.latest_features = analyzer.latest_features
              /\ beat_tracker' = beat_tracker
              /\ freq_analyzer' = freq_analyzer
        /\ op'.name = "audio_callback" => (analyzer.is_running /\ analyzer.stream = "open")
      ]_vars

\* a second stop, after a stop that stopped and closed a stream which had
\* delivered a chunk: it makes no call
C16_Witness ==
    /\ op.name = "analyzer_stop"
    /\ op.calls = <<>>
    /\ Len(app.stream_calls) = 4
    /\ app.stream_calls[3].call = "stop"
    /\ app.stream_calls[4].call = "close"
    /\ analyzer.latest_features.timestamp > 0
    /\ analyzer.stream = "none"

\* C19: in a running session change_genre, update_intensity and
\* update_sensitivity change the one field of the live mapper (the preset, or
\* the clamped intensity or sensitivity) and the stored config, and nothing
\* else of the pipeline: tracker, frequency analyzer and analyzer are as they
\* were, the mapper keeps its smoothing accumulators, idle_phase and feature
\* history, and no analyzer or mapper instance is created.
C19_ReconfigureFrame ==
    [][ (op'.name \in {"change_genre", "app_update_intensity", "app_update_sensitivity"}
            /\ app.is_vibing) =>
          /\ beat_tracker' = beat_tracker
          /\ freq_analyzer' = freq_analyzer
          /\ analyzer' = analyzer
          /\ app'.analyzer = app.analyzer
          /\ app'.mapper = app.mapper
          /\ app'.is_vibing
          /\ op'.name = "change_genre" =>
                /\ mapper' = [mapper EXCEPT !.preset = mapper'.preset]
                /\ mapper'.preset.name = (IF op'.value = "rock" THEN "rock" ELSE "electronic")
                /\ app'.config = [app.config EXCEPT !.genre = op'.value]
          /\ op'.name = "app_update_intensity" =>
                /\ mapper' = [mapper EXCEPT !.intensity = mapper'.intensity]
                /\ app'.config = [app.config EXCEPT !.intensity = op'.value]
          /\ op'.name = "app_update_sensitivity" =>
                /\ mapper' = [mapper EXCEPT !.sensitivity = mapper'.sensitivity]
                /\ app'.config = [app.config EXCEPT !.sensitivity = op'.value]
      ]_vars

\* a change of genre in a session whose tracker has heard a chunk and whose
\* mapper has moved: the accumulators and the history are still there
C19_Witness ==
    /\ op.name = "change_genre"
    /\ app.is_vibing
    /\ mapper.preset.name = "rock"
    /\ mapper.smooth_body_yaw # 0
    /\ Len(mapper.feature_history) >= 1
    /\ Len(beat_tracker.energy_history) >= 1

\* C20: in every state of a mapper, after construction with any intensity and
\* sensitivity arguments and any update_intensity and update_sensitivity calls,
\* intensity and sensitivity lie in [0, 1].
C20_LevelsInUnit ==
    /\ 0 <= mapper.intensity /\ mapper.intensity <= 1000
    /\ 0 <= mapper.sensitivity /\ mapper.sensitivity <= 1000

\* C17: stopping does not race with the controller: wind_down_animation issues
\* its actuator commands only when no execute call of the vibe loop is in
\* flight, and the loop starts no execute call once stop_vibing has cleared
\* is_vibing and begun winding down.
C17_NoActuatorRace ==
    [][ /\ op'.name \in {"wind_down", "wind_down_rest"} => app.loop.pc # "executing"
        /\ op'.name = "loop_execute_begin" =>
              ~(~app.is_vibing /\ app.stopper \in {"nodded", "rested"})
      ]_vars

\* C18: every get_latest() read of the vibe loop returns the whole snapshot
\* most recently published by an audio callback of its analyzer (the default
\* snapshot before the first), never the one a callback in progress is still
\* building, and within one analyzer the timestamps it reads never decrease.
C18_LatestSnapshot ==
    [][ op'.name = "get_latest" =>
          /\ op'.features = app.audio.published
          /\ app.audio.pc = "computed" /\ app.audio.pending # app.audio.published
                => op'.features # app.audio.pending
          /\ app.loop.session = app.analyzer
                => op'.features.timestamp >= app.latest_features.timestamp
      ]_vars

\* a read in a later iteration of the loop, made while a callback is building
\* the next snapshot, that returns the snapshot published before it
C18_Witness ==
    /\ op.name = "get_latest"
    /\ app.audio.pc = "computed"
    /\ controller.last_command_time > 0
    /\ op.features = app.audio.published
    /\ op.features # app.audio.pending
    /\ op.features.timestamp > 0

\* C21: each band's bin set is exactly the bins whose centre frequency f
\* satisfies low_hz <= f < high_hz, and the three bin sets are pairwise
\* disjoint.
C21_BandsHalfOpen ==
    LET fa == freq_analyzer
        InBand(range) ==
            { k \in 0 .. (fa.fft_size \div 2) :
                /\ range[1] * fa.fft_size <= k * fa.sample_rate
                /\ k * fa.sample_rate < range[2] * fa.fft_size }
    IN  /\ fa.bass_bins = InBand(BASS_RANGE)
        /\ fa.mid_bins = InBand(MID_RANGE)
        /\ fa.treble_bins = InBand(TREBLE_RANGE)
        /\ fa.bass_bins \cap fa.mid_bins = {}
        /\ fa.mid_bins \cap fa.treble_bins = {}
        /\ fa.bass_bins \cap fa.treble_bins = {}

\* C22: on a non-silent tick with a beat every pose field, before intensity
\* scaling, is 0.3 * the continuous value + 0.7 * the beat value (seen in the
\* smoothing accumulators and, for the pitch, in the command), the duration is
\* the smaller of the two durations and the priority the larger of the two
\* priorities; a command of a non-silent tick has priority 1 exactly when the
\* tick had a beat, and priority 0 otherwise.
C22_BeatBlend ==
    [][ (op'.name = "tick" /\ ~op'.features.is_silent) =>
        LET f      == op'.features
            cont   == GetContinuousMovement(mapper, f, op'.rnd.side)
            beat   == GetBeatMovement(mapper, f, op'.rnd.coin)
            factor == mapper.preset.movement_smoothing
            r      == mapper.preset.randomness
            Scaled(a, b) == MulM(MulM(a, 300) + MulM(b, 700), mapper.intensity)
            Expect(old, a, b) == MulM(old, factor) + MulM(Scaled(a, b), 1000 - factor)
        IN  /\ f.beat_detected =>
                /\ mapper'.smooth_head_z = Expect(mapper.smooth_head_z, cont.head_z, beat.head_z)
                /\ mapper'.smooth_head_roll =
                       Expect(mapper.smooth_head_roll, cont.head_roll, beat.head_roll)
                /\ mapper'.smooth_body_yaw =
                       Expect(mapper.smooth_body_yaw, cont.body_yaw, beat.body_yaw)
                /\ mapper'.smooth_antenna_l =
                       Expect(mapper.smooth_antenna_l, cont.antenna_left, beat.antenna_left)
                /\ mapper'.smooth_antenna_r =
                       Expect(mapper.smooth_antenna_r, cont.antenna_right, beat.antenna_right)
                /\ op'.cmd.head_pitch - (IF r <= 0 THEN 0 ELSE op'.rnd.z[3] * r * 2)
                       = Scaled(cont.head_pitch, beat.head_pitch)
                /\ op'.cmd.duration = Min(cont.duration, beat.duration)
                /\ op'.cmd.priority = Max(cont.priority, beat.priority)
            /\ op'.cmd.priority = IF f.beat_detected THEN 1 ELSE 0
      ]_vars

\* a beat tick that moved the head and the antennas, its command of priority 1
\* and of the continuous command's duration, after a tick without a beat
C22_Witness ==
    /\ op.name = "tick"
    /\ ~op.features.is_silent
    /\ op.features.beat_detected
    /\ op.cmd.priority = 1
    /\ op.cmd.duration = 50
    /\ op.cmd.head_z # 0
    /\ op.cmd.antenna_left # 0
    /\ mapper.intensity > 0
    /\ Len(mapper.feature_history) > 1
    /\ ~mapper.feature_history[Len(mapper.feature_history) - 1].beat_detected
    /\ ~mapper.feature_history[Len(mapper.feature_history) - 1].is_silent

\* C23: the feature queue never holds more than 10 snapshots, and a snapshot
\* returned by get_features() is one of the 10 most recent snapshots the
\* callback has produced (chunks arrive one chunk length apart), because a
\* full queue gives up its old snapshots for the new one.
C23_QueueKeepsRecent ==
    [][ /\ Len(analyzer'.feature_queue) <= QueueCap
        /\ (op'.name = "get_features" /\ op'.found) =>
              op'.features.timestamp + QueueCap * ChunkSize > analyzer.latest_features.timestamp
      ]_vars

\* C24: at most one vibe loop runs at a time: when the loop thread of the
\* latest start_vibing drives the mapper or the controller, the loop thread of
\* every earlier start_vibing has exited.
C24_OneLoopAtATime ==
    [][ (op'.name \in {"loop_process", "loop_execute_begin"} /\ op'.thread = "loop")
            => ThreadDone("orphan")
      ]_vars

\* C25: the vibe loop never calls get_latest() on a missing analyzer (the
\* thread does not die of it) and never reads from an analyzer whose stream
\* has been closed.
C25_NoMissingAnalyzer ==
    [][ /\ op'.name # "loop_crashed"
        /\ op'.name = "get_latest" => analyzer.stream = "open"
      ]_vars

\* C26: a snapshot with beat_detected = true is passed to
\* MovementMapper.process at most once: the snapshot the loop is about to
\* process, if it carries a beat, is not the one it processed the time before.
C26_BeatOnce ==
    [][ ( /\ op'.name = "loop_process"
          /\ op'.features.beat_detected
          /\ mapper.feature_history # <<>> )
            => mapper.feature_history[Len(mapper.feature_history)] # op'.features
      ]_vars

\* the stored beat timestamps are strictly increasing
StrictlyIncreasing(times) == \A i \in 1 .. (Len(times) - 1) : times[i] < times[i + 1]

\* C27: when _update_bpm runs with at least 4 strictly increasing timestamps,
\* some interval lies strictly between half the median and twice the median
\* (the upper middle interval always does), so the keep-the-previous-estimate
\* branch is not taken: beat_interval is the mean of the valid intervals after
\* every detected beat from the fourth onward.
C27_AlwaysRecomputed ==
    [][ ( /\ op'.name = "audio_callback"
          /\ op'.beat_detected
          /\ Len(beat_tracker'.beat_times) >= 4
          /\ StrictlyIncreasing(beat_tracker'.beat_times) ) =>
        LET times  == beat_tracker'.beat_times
            iv     == [i \in 1 .. (Len(times) - 1) |-> times[i + 1] - times[i]]
            sorted == Sort(iv)
            med2   == Median2(iv)
            middle == sorted[Len(iv) \div 2 + 1]
            valid  == {i \in DOMAIN iv : med2 < 4 * iv[i] /\ iv[i] < med2}
            total  == Sum([k \in 1 .. Len(iv) |-> IF k \in valid THEN iv[k] ELSE 0])
        IN  /\ med2 < 4 * middle /\ middle < med2
            /\ valid # {}
            /\ beat_tracker'.beat_interval = Rat(total, Cardinality(valid))
      ]_vars

\* a fifth or later beat (an even number of intervals, of two lengths) whose
\* update moved the interval off its construction value
C27_Witness ==
    /\ op.name = "audio_callback"
    /\ op.beat_detected
    /\ Len(beat_tracker.beat_times) >= 5
    /\ Len(beat_tracker.beat_times) % 2 = 1
    /\ StrictlyIncreasing(beat_tracker.beat_times)
    /\ beat_tracker.beat_times[2] - beat_tracker.beat_times[1]
          # beat_tracker.beat_times[3] - beat_tracker.beat_times[2]
    /\ beat_tracker.beat_interval # BeatTrackerInit.beat_interval

\* C28: with a clock that never runs backwards, in every reachable state
\* beat_interval > 0 (so get_beat_phase divides by it), the stored beat
\* timestamps are strictly increasing, and estimated_bpm is 60 / beat_interval
\* clamped to [60, 200].
C28_TrackerInvariant ==
    LET bi    == beat_tracker.beat_interval
        bpm   == beat_tracker.estimated_bpm
        raw_n == 60 * SampleRate * bi.d
    IN  /\ bi.n > 0 /\ bi.d > 0
        /\ StrictlyIncreasing(beat_tracker.beat_times)
        /\ \A i \in DOMAIN beat_tracker.beat_times :
              beat_tracker.beat_times[i] <= beat_tracker.last_beat_time
        /\ IF raw_n > 200 * bi.n THEN bpm = [n |-> 200, d |-> 1]
           ELSE IF raw_n < 60 * bi.n THEN bpm = [n |-> 60, d |-> 1]
           ELSE bpm = Rat(raw_n, bi.n)

\* a loud onset arriving at the very time of the last beat, turned away by the
\* gate, on a tracker that has re-estimated its interval
C28_Witness ==
    /\ op.name = "audio_callback"
    /\ ~op.beat_detected
    /\ op.onset_strength > 1000
    /\ op.rms > SilenceFloor
    /\ op.time = beat_tracker.last_beat_time
    /\ Len(beat_tracker.beat_times) >= 4
    /\ beat_tracker.beat_interval # BeatTrackerInit.beat_interval

\* the tracker has locked on a multiple of the period being fed: the 50
\* stored beat times are all beat_interval apart, and beat_interval is twice
\* the period
LockedOnMultiple ==
    LET times == beat_tracker.beat_times
        bi    == beat_tracker.beat_interval
    IN  /\ Len(times) = BeatCap
        /\ bi.d = 1
        /\ bi.n = 2 * track.fast
        /\ \A i \in 1 .. (Len(times) - 1) : times[i + 1] - times[i] = bi.n

\* a tracker locked on a multiple of the period stays locked on it: the run
\* that never reaches the tempo repeats itself, shifted in time
LockedStays == [][LockedOnMultiple => LockedOnMultiple']_vars

C30_RunningIffStream ==
    [][ op'.name \in {"analyzer_start", "analyzer_stop"} =>
          /\ analyzer'.is_running <=> analyzer'.stream = "open"
          /\ (op'.name = "analyzer_start" /\ analyzer.stream = "none" /\ op'.device_ok)
                => analyzer'.stream = "open"
      ]_vars

====
